---- MODULE Spec2Model ----
(***************************************************************************)
(* A model of package webhook of rjeczalik/gh: construction of a Handler   *)
(* (New, payloadMethods), the request lifecycle of Handler.ServeHTTP and   *)
(* the asynchronous dispatch of Handler.call.                              *)
(*                                                                         *)
(* Byte strings are sequences of one-character strings.  A JSON member     *)
(* ("key":value) is abstracted to one symbol, "a" or "b".                  *)
(***************************************************************************)
EXTENDS Integers, Sequences, FiniteSets, TLC

VARIABLES
    args,      \* the arguments main passes to New: [secret, rcvr]
    ctor,      \* "pending" | "ok" | "panic": how the call of New ended
    h,         \* the Handler New returned: [secret, rcvr, method]
    reqs,      \* the requests, one per ServeHTTP call (1..n)
    pc,        \* per request: position of its ServeHTTP call
    resp,      \* per request: the response written, [code, body]
    buf,       \* per request: the local `body` buffer after Body.Read
    v,         \* per request: the decoded payload (the local `v`)
    task,      \* per request: the goroutine started by `go h.call(...)`
    invoked,   \* per request: the user methods its goroutine has called
    logs,      \* per request: the lines written through h.logf
    ver,       \* which variant of webhook.go is built: 1 (the earlier) or 2
    exited,    \* an unrecovered panic of a goroutine has ended the process
    script,    \* package tsc: the call of tsc.New, its inputs and its result
    runs,      \* package tsc: the calls of Script.Webhook made so far
    dumper,    \* Dump: whether the handler is wrapped, and which handler it is
    rec,       \* Dump, per request: the status field of its recorder
    tee,       \* Dump, per request: the bytes its TeeReader copied into buf
    dtask,     \* Dump, per request: the goroutine started by `go d.dump(...)`
    dir,       \* Dump: the files of the destination directory
    clock,     \* Dump: the time that time.Now() returned last
    command,   \* cmd/webhook: the tokens of the command line handed to splitCommand
    split      \* cmd/webhook: the call of splitCommand and what it returned

vars ==
    <<args, ctor, h, reqs, pc, resp, buf, v, task, invoked, logs, ver, exited,
      script, runs, dumper, rec, tee, dtask, dir, clock, command, split>>

\* The variables of splitCommand.
splitVars == <<command, split>>

\* The variables of Dump.
dumpVars == <<dumper, rec, tee, dtask, dir, clock>>

\* The variables of package tsc, and those of package webhook.
scriptVars == <<script, runs>>
webhookVars ==
    <<args, ctor, h, reqs, pc, resp, buf, v, task, invoked, logs, ver, exited>>

-----------------------------------------------------------------------------
(* Bounds of the model.                                                    *)

\* Number of concurrent ServeHTTP calls of the specification Spec.
MaxReq == 2

\* Longest method set of a receiver object of the specification SpecNew.
MaxMethods == 3

\* Longest argument list handed to tsc.New in the specification SpecScriptNew.
MaxArgs == 4

\* Number of calls of Script.Webhook in the specification SpecScript.
MaxRuns == 2

\* Number of calls of Script.Webhook in the specification SpecRun.
FewRuns == 1

\* Longest command line, in tokens, of the specification SpecSplit.
MaxTokens == 3

Min(a, b) == IF a < b THEN a ELSE b

-----------------------------------------------------------------------------
(* The payload registry (payloads.go, generated): event name <-> type.     *)

payloads ==
    [push |-> "PushEvent", ping |-> "PingEvent", gollum |-> "GollumEvent",
     create |-> "CreateEvent", gist |-> "GistEvent", delete |-> "DeleteEvent",
     fork_apply |-> "ForkApplyEvent"]

\* payloads.Type(event): the payload type registered for an event name.
payloadsType(event) ==
    IF event \in DOMAIN payloads
    THEN [typ |-> payloads[event], ok |-> TRUE]
    ELSE [typ |-> "", ok |-> FALSE]

\* payloads.Name(typ): the event name a payload type is registered under.
payloadsName(typ) ==
    IF \E e \in DOMAIN payloads : payloads[e] = typ
    THEN [event |-> CHOOSE e \in DOMAIN payloads : payloads[e] = typ, ok |-> TRUE]
    ELSE [event |-> "", ok |-> FALSE]

-----------------------------------------------------------------------------
(* reflect: types and methods of a receiver object.                        *)

\* A reflect.Type: [Kind, Name]; for a pointer, Name is the element's name.
Ptr(name)   == [Kind |-> "ptr", Name |-> name]
Struct(name) == [Kind |-> "struct", Name |-> name]
TString     == [Kind |-> "string", Name |-> "string"]
TInt        == [Kind |-> "int", Name |-> "int"]
\* var empty = reflect.TypeOf(func(interface{}) {}).In(0)
empty       == [Kind |-> "interface", Name |-> "interface{}"]
TError      == [Kind |-> "interface", Name |-> "error"]
Rcvr        == [Kind |-> "struct", Name |-> "rcvr"]

\* A reflect.Method: its name, its PkgPath ("" when exported) and the types
\* of its inputs, the receiver first (mtype.In(0)).
Method(name, pkg, in) == [Name |-> name, PkgPath |-> pkg, In |-> <<Rcvr>> \o in]

NumIn(method) == Len(method.In)
\* mtype.In(i), Go's index 0 being the receiver
In(method, i) == method.In[i + 1]

mPush    == Method("Push",    "", <<Ptr("PushEvent")>>)
mOnPush  == Method("OnPush",  "", <<Ptr("PushEvent")>>)
mPing    == Method("Ping",    "", <<Ptr("PingEvent")>>)
mAll     == Method("All",     "", <<TString, empty>>)
mAny     == Method("Any",     "", <<TString, empty>>)
mClose   == Method("Close",   "", <<>>)
mByValue == Method("ByValue", "", <<Struct("PushEvent")>>)
mUnknown == Method("Unknown", "", <<Ptr("int")>>)
mWrong3  == Method("Wrong3",  "", <<TInt, empty>>)
mErr3    == Method("Err3",    "", <<TString, TError>>)
mhidden  == Method("hidden",  "webhook", <<Ptr("PingEvent")>>)
mCreate  == Method("Create",  "", <<Ptr("CreateEvent")>>)
mGist    == Method("Gist",    "", <<Ptr("GistEvent")>>)
mDelete  == Method("Delete",  "", <<Ptr("DeleteEvent")>>)
mForkApply == Method("ForkApply", "", <<Ptr("ForkApplyEvent")>>)
mGollum  == Method("Gollum",  "", <<Ptr("GollumEvent")>>)

-----------------------------------------------------------------------------
(* Construction: payloadMethods and New.                                   *)

\* methods[event] = method
Put(methods, event, method) ==
    [k \in DOMAIN methods \cup {event} |-> IF k = event THEN method ELSE methods[k]]

Same(methods) == [panic |-> "", methods |-> methods]

\* As SpecificCase, but a second method of an event replaces the first.
SpecificCase_LastWins(methods, method) ==
    LET eventType == In(method, 1)
        name == payloadsName(eventType.Name)
    IN  IF eventType.Kind # "ptr"
        THEN Same(methods)
        ELSE IF ~name.ok
        THEN Same(methods)
        ELSE Same(Put(methods, name.event, method))

\* As SpecificCase, but the argument may be the payload itself, not a pointer.
SpecificCase_ByValue(methods, method) ==
    LET eventType == In(method, 1)
        name == payloadsName(eventType.Name)
    IN  IF ~name.ok
        THEN Same(methods)
        ELSE IF name.event \in DOMAIN methods
        THEN [panic |-> "there is more than one method handling event",
              methods |-> methods]
        ELSE Same(Put(methods, name.event, method))

\* case 2: a method with one argument
SpecificCase(methods, method) ==
    LET eventType == In(method, 1)
        name == payloadsName(eventType.Name)
    IN  IF eventType.Kind # "ptr"
        THEN Same(methods)
        ELSE IF ~name.ok
        THEN Same(methods)
        ELSE IF name.event \in DOMAIN methods
        THEN [panic |-> "there is more than one method handling event",
              methods |-> methods]
        ELSE Same(Put(methods, name.event, method))

\* As WildcardCase, but a second wildcard method replaces the first.
WildcardCase_LastWins(methods, method) ==
    IF In(method, 1).Kind # "string" \/ In(method, 2) # empty
    THEN Same(methods)
    ELSE Same(Put(methods, "*", method))

\* case 3: a method with two arguments
WildcardCase(methods, method) ==
    IF In(method, 1).Kind # "string" \/ In(method, 2) # empty
    THEN Same(methods)
    ELSE IF "*" \in DOMAIN methods
    THEN [panic |-> "there is more than one method handling all events",
          methods |-> methods]
    ELSE Same(Put(methods, "*", method))

\* As LoopBody, but the methods that are not exported are looked at as well.
LoopBody_Unexported(methods, method) ==
    IF NumIn(method) = 2
    THEN SpecificCase(methods, method)
    ELSE IF NumIn(method) = 3
    THEN WildcardCase(methods, method)
    ELSE Same(methods)

\* One iteration of LoopMethods: the table after looking at `method`, or the
\* panic it raises.
LoopBody(methods, method) ==
    IF method.PkgPath # ""
    THEN Same(methods)
    ELSE IF NumIn(method) = 2
    THEN SpecificCase(methods, method)
    ELSE IF NumIn(method) = 3
    THEN WildcardCase(methods, method)
    ELSE Same(methods)

RECURSIVE LoopMethods(_, _, _)
LoopMethods(typ, i, methods) ==
    IF i > Len(typ)
    THEN [panic |-> "", methods |-> methods]
    ELSE LET step == LoopBody(methods, typ[i])
         IN  IF step.panic # "" THEN step ELSE LoopMethods(typ, i + 1, step.methods)

\* payloadMethods(typ): typ is the method set of the receiver's type, in the
\* order typ.Method(i) lists it.
payloadMethods(typ) == LoopMethods(typ, 1, <<>>)

\* The zero Handler: what h holds while no Handler has been returned.
NoHandler == [secret |-> "", rcvr |-> <<>>, method |-> <<>>]

\* As NewResult, but the secret is not looked at.
NewResult_AnySecret(secret, rcvr) ==
    LET pm == payloadMethods(rcvr)
    IN  IF pm.panic # ""
        THEN [panic |-> pm.panic, handler |-> NoHandler]
        ELSE [panic |-> "",
              handler |-> [secret |-> secret, rcvr |-> rcvr, method |-> pm.methods]]

\* New(secret, rcvr): the Handler it returns, or the panic it raises.
NewResult(secret, rcvr) ==
    IF secret = ""
    THEN [panic |-> "webhook: called New with empty secret", handler |-> NoHandler]
    ELSE LET pm == payloadMethods(rcvr)
         IN  IF pm.panic # ""
             THEN [panic |-> pm.panic, handler |-> NoHandler]
             ELSE [panic |-> "",
                   handler |-> [secret |-> secret, rcvr |-> rcvr, method |-> pm.methods]]

\* New of the earlier variant: the method table is left empty.
oldNewResult(secret, rcvr) ==
    IF secret = ""
    THEN [panic |-> "webhook: called New with empty secret", handler |-> NoHandler]
    ELSE [panic |-> "",
          handler |-> [secret |-> secret, rcvr |-> rcvr, method |-> <<>>]]

-----------------------------------------------------------------------------
(* Bytes, the keyed digest and the JSON decoder.                           *)

\* A byte slice: `data` followed by `pad` zero bytes.  Request bodies hold no
\* zero byte, so the pair is a normal form.
Bytes(data, pad) == [data |-> data, pad |-> pad]
NoBytes == Bytes(<<>>, 0)

\* mac := hmac.New(sha256.New, key); mac.Write(msg); mac.Sum(nil): the digest,
\* collision free: a different key or message gives a different digest.
Sum(key, msg) == [kind |-> "digest", key |-> key, msg |-> msg]
\* The text "sha256=" followed by the hexadecimal form of a digest.
Hex(d) == [kind |-> "hex", key |-> d.key, msg |-> d.msg]
\* An absent (or empty) header value.
NoValue == [kind |-> "empty", key |-> "", msg |-> NoBytes]

\* len(sig)
SigLen(sig) == IF sig.kind = "empty" THEN 0 ELSE IF sig.kind = "digest" THEN 32 ELSE 71

\* hmac.Equal(a, b): the two byte slices are equal
hmacEqual(a, b) == a = b

Whitespace == {" ", "\n"}
Members == {"a", "b"}

RECURSIVE SkipSpace(_)
SkipSpace(s) ==
    IF s # <<>> /\ Head(s) \in Whitespace THEN SkipSpace(Tail(s)) ELSE s

NoPayload == [typ |-> "", fields |-> <<>>]

\* json.NewDecoder(bytes.NewReader(body)).Decode(v), v a new value of type
\* typ: the first JSON value of body must be an object; what follows it is not
\* looked at.  A zero byte, or the end of body, inside the value is an error.
Decode(typ, body) ==
    LET s1 == SkipSpace(body.data)
        bad == [err |-> "json: syntax error", v |-> NoPayload]
    IN  IF s1 = <<>> \/ Head(s1) # "{"
        THEN bad
        ELSE LET s2 == SkipSpace(Tail(s1))
             IN  IF s2 = <<>>
                 THEN bad
                 ELSE IF Head(s2) = "}"
                 THEN [err |-> "", v |-> [typ |-> typ, fields |-> <<>>]]
                 ELSE IF Head(s2) \notin Members
                 THEN bad
                 ELSE LET s3 == SkipSpace(Tail(s2))
                      IN  IF s3 # <<>> /\ Head(s3) = "}"
                          THEN [err |-> "", v |-> [typ |-> typ, fields |-> <<Head(s2)>>]]
                          ELSE bad

-----------------------------------------------------------------------------
(* Handler.ServeHTTP, up to the response.                                  *)

\* const maxPayloadLen = 1024 * 1024 * 1024
maxPayloadLen == 1024 * 1024 * 1024

errMethod  == "invalid HTTP method"
errHeaders == "invalid HTTP headers"
errSig     == "invalid signature header"
errPayload == "unsupported payload type"

\* http.StatusText(code)
StatusText(code) ==
    CASE code = 200 -> "OK"
      [] code = 400 -> "Bad Request"
      [] code = 401 -> "Unauthorized"
      [] code = 405 -> "Method Not Allowed"
      [] code = 500 -> "Internal Server Error"
      [] OTHER -> ""

\* body := make([]byte, int(req.ContentLength)); _, err := req.Body.Read(body):
\* one Read, which stores req.Read.n bytes of the stream in the zeroed buffer.
ReadBody(req) ==
    Bytes(SubSeq(req.Body, 1, req.Read.n), req.ContentLength - req.Read.n)

\* What the synchronous part of ServeHTTP comes to: the status, the error of a
\* rejection, whether Body.Read was called, the buffer and the payload.
Fatal(code, err, read, body) ==
    [code |-> code, err |-> err, read |-> read, body |-> body, v |-> NoPayload]
Accept(body, payload) ==
    [code |-> 200, err |-> "", read |-> TRUE, body |-> body, v |-> payload]

\* As DecodeStep, but the value decoded into is always a PushEvent.
DecodeStep_AlwaysPush(hh, req, body, typ) ==
    LET d == Decode("PushEvent", body)
    IN  IF d.err # "" THEN Fatal(400, d.err, TRUE, body) ELSE Accept(body, d.v)

\* v := reflect.New(typ); json...Decode(v.Interface())
DecodeStep(hh, req, body, typ) ==
    LET d == Decode(typ, body)
    IN  IF d.err # "" THEN Fatal(400, d.err, TRUE, body) ELSE Accept(body, d.v)

\* typ, ok := payloads.Type(event)
ResolveStep(hh, req, body) ==
    LET t == payloadsType(req.Event)
    IN  IF ~t.ok
        THEN Fatal(400, errPayload, TRUE, body)
        ELSE DecodeStep(hh, req, body, t.typ)

\* As VerifyStep, but the registry is asked before the signature is compared.
VerifyStep_ResolveFirst(hh, req, body) ==
    IF ~payloadsType(req.Event).ok
    THEN Fatal(400, errPayload, TRUE, body)
    ELSE IF ~hmacEqual(Sum(hh.secret, body), req.Sig)
    THEN Fatal(401, errSig, TRUE, body)
    ELSE ResolveStep(hh, req, body)

\* mac := hmac.New(sha256.New, h.secret); mac.Write(body); hmac.Equal(...)
VerifyStep(hh, req, body) ==
    IF ~hmacEqual(Sum(hh.secret, body), req.Sig)
    THEN Fatal(401, errSig, TRUE, body)
    ELSE ResolveStep(hh, req, body)

\* As ReadStep, but io.EOF is taken for a failure as well.
ReadStep_EOFFails(hh, req) ==
    LET body == ReadBody(req)
    IN  IF req.Read.err # "nil"
        THEN Fatal(500, req.Read.err, TRUE, body)
        ELSE VerifyStep(hh, req, body)

\* _, err := req.Body.Read(body); if err != nil && err != io.EOF { fatal 500 }
ReadStep(hh, req) ==
    LET body == ReadBody(req)
    IN  IF req.Read.err # "nil" /\ req.Read.err # "EOF"
        THEN Fatal(500, req.Read.err, TRUE, body)
        ELSE VerifyStep(hh, req, body)

\* As ServeHTTPResult, but the headers are checked before the method.
ServeHTTPResult_HeadersFirst(hh, req) ==
    IF req.Event = "" \/ SigLen(req.Sig) = 0
    THEN Fatal(400, errHeaders, FALSE, NoBytes)
    ELSE IF req.Method # "POST"
    THEN Fatal(405, errMethod, FALSE, NoBytes)
    ELSE IF req.ContentLength <= 0 \/ req.ContentLength > maxPayloadLen
    THEN Fatal(400, errHeaders, FALSE, NoBytes)
    ELSE ReadStep(hh, req)

\* As ServeHTTPResult, but an empty signature header is not rejected.
ServeHTTPResult_NoSigLen(hh, req) ==
    IF req.Method # "POST"
    THEN Fatal(405, errMethod, FALSE, NoBytes)
    ELSE IF req.Event = ""
    THEN Fatal(400, errHeaders, FALSE, NoBytes)
    ELSE IF req.ContentLength <= 0 \/ req.ContentLength > maxPayloadLen
    THEN Fatal(400, errHeaders, FALSE, NoBytes)
    ELSE ReadStep(hh, req)

\* As ServeHTTPResult, but a declared length of maxPayloadLen is rejected.
ServeHTTPResult_BelowMax(hh, req) ==
    IF req.Method # "POST"
    THEN Fatal(405, errMethod, FALSE, NoBytes)
    ELSE IF req.Event = "" \/ SigLen(req.Sig) = 0
    THEN Fatal(400, errHeaders, FALSE, NoBytes)
    ELSE IF req.ContentLength <= 0 \/ req.ContentLength >= maxPayloadLen
    THEN Fatal(400, errHeaders, FALSE, NoBytes)
    ELSE ReadStep(hh, req)

\* The switch of ServeHTTP, then the rest of it.
ServeHTTPResult(hh, req) ==
    IF req.Method # "POST"
    THEN Fatal(405, errMethod, FALSE, NoBytes)
    ELSE IF req.Event = "" \/ SigLen(req.Sig) = 0
    THEN Fatal(400, errHeaders, FALSE, NoBytes)
    ELSE IF req.ContentLength <= 0 \/ req.ContentLength > maxPayloadLen
    THEN Fatal(400, errHeaders, FALSE, NoBytes)
    ELSE ReadStep(hh, req)

\* An argument of a Printf call: a string (or an error's text) or an integer.
Str(s) == [t |-> "string", s |-> s, n |-> 0]
Num(n) == [t |-> "int", s |-> "", n |-> n]

\* h.logf(format, args...): the line handed to the logger, as the format and
\* the arguments that fill its verbs from left to right.
logf(format, a) == [format |-> format, args |-> a]

fatalFormat == "%s: Status=%d X-GitHub-Event=%q Content-Length=%d: %v"

\* The log line of h.fatal.
fatalLog(req, code, err) ==
    logf(fatalFormat,
         <<Str(req.RemoteAddr), Num(code), Str(req.Event), Num(req.ContentLength),
           Str(err)>>)

\* The log line of h.fatal of the earlier variant: code is not passed on.
oldFatalLog(req, code, err) ==
    logf(fatalFormat,
         <<Str(req.RemoteAddr), Str(req.Event), Num(req.ContentLength), Str(err)>>)

\* As fatalBody, but the text of the error is sent.
fatalBody_ErrText(code, err) == err

\* http.Error(w, http.StatusText(code), code): the body of a rejection.
fatalBody(code, err) == StatusText(code)

-----------------------------------------------------------------------------
(* Handler.call, run by the goroutine ServeHTTP starts.                    *)

callFormat == "%s: Status=200 X-GitHub-Event=%q Type=%T"
pingFormat == "%s: Status=200 X-GitHub-Event=ping Events=%v"

\* The line logged after a user method has returned.
callLog(remote, event, payload) ==
    logf(callFormat, <<Str(remote), Str(event), Str(payload.typ)>>)
\* The default action for "ping": the line with the hook's events (the
\* members decoded into the payload).
pingLog(remote, payload) ==
    logf(pingFormat, <<Str(remote), [t |-> "events", s |-> "", n |-> Len(payload.fields)]>>)

\* As callResult, but the wildcard method is looked up first.
callResult_WildcardFirst(hh, remote, event, payload) ==
    IF "*" \in DOMAIN hh.method
    THEN [calls |-> <<[method |-> hh.method["*"].Name,
                       in |-> [event |-> event, payload |-> payload]]>>,
          logs  |-> <<callLog(remote, event, payload)>>]
    ELSE IF event \in DOMAIN hh.method
    THEN [calls |-> <<[method |-> hh.method[event].Name,
                       in |-> [payload |-> payload]]>>,
          logs  |-> <<callLog(remote, event, payload)>>]
    ELSE IF event = "ping"
    THEN [calls |-> <<>>, logs |-> <<pingLog(remote, payload)>>]
    ELSE [calls |-> <<>>, logs |-> <<>>]

\* As callResult, but the default action is performed for every event name.
callResult_DefaultForAll(hh, remote, event, payload) ==
    IF event \in DOMAIN hh.method
    THEN [calls |-> <<[method |-> hh.method[event].Name,
                       in |-> [payload |-> payload]]>>,
          logs  |-> <<callLog(remote, event, payload)>>]
    ELSE IF "*" \in DOMAIN hh.method
    THEN [calls |-> <<[method |-> hh.method["*"].Name,
                       in |-> [event |-> event, payload |-> payload]]>>,
          logs  |-> <<callLog(remote, event, payload)>>]
    ELSE [calls |-> <<>>, logs |-> <<pingLog(remote, payload)>>]

\* As callResult, but an event no method handles is logged as well.
callResult_LogsUnhandled(hh, remote, event, payload) ==
    IF event \in DOMAIN hh.method
    THEN [calls |-> <<[method |-> hh.method[event].Name,
                       in |-> [payload |-> payload]]>>,
          logs  |-> <<callLog(remote, event, payload)>>]
    ELSE IF "*" \in DOMAIN hh.method
    THEN [calls |-> <<[method |-> hh.method["*"].Name,
                       in |-> [event |-> event, payload |-> payload]]>>,
          logs  |-> <<callLog(remote, event, payload)>>]
    ELSE IF event = "ping"
    THEN [calls |-> <<>>, logs |-> <<pingLog(remote, payload)>>]
    ELSE [calls |-> <<>>, logs |-> <<callLog(remote, event, payload)>>]

\* What call does: the user methods it calls, each with its arguments (the
\* receiver left out), and the lines it logs.
callResult(hh, remote, event, payload) ==
    IF event \in DOMAIN hh.method
    THEN [calls |-> <<[method |-> hh.method[event].Name,
                       in |-> [payload |-> payload]]>>,
          logs  |-> <<callLog(remote, event, payload)>>]
    ELSE IF "*" \in DOMAIN hh.method
    THEN [calls |-> <<[method |-> hh.method["*"].Name,
                       in |-> [event |-> event, payload |-> payload]]>>,
          logs  |-> <<callLog(remote, event, payload)>>]
    ELSE IF event = "ping"
    THEN [calls |-> <<>>, logs |-> <<pingLog(remote, payload)>>]
    ELSE [calls |-> <<>>, logs |-> <<>>]

-----------------------------------------------------------------------------
(* The inputs: receiver objects, secrets and requests.                     *)

GoodKey  == "k1"
OtherKey == "k2"
Secrets  == {"", GoodKey, OtherKey}

MethodPool ==
    {mPush, mOnPush, mPing, mAll, mAny, mClose, mByValue, mUnknown, mWrong3,
     mErr3, mhidden}

\* Every method set of at most n distinct methods of the pool, in every order.
RcvrsUpTo(n) ==
    {s \in UNION {[1..k -> MethodPool] : k \in 0..n} :
        \A i, j \in DOMAIN s : i # j => s[i].Name # s[j].Name}

\* The receivers of TestPayloadMethods: Foo, Bar and Baz.
TestRcvrs ==
    { <<mAll, mPing>>, <<mCreate, mGist, mPush>>,
      <<mAll, mDelete, mForkApply, mGollum>> }

\* A few receivers that New accepts.
SomeRcvrs == {<<>>, <<mPush>>, <<mAll>>, <<mAll, mPush>>}

Bodies ==
    { <<"{", "}">>, <<"{", "a", "}">>, <<"{", "b", "}">>,
      <<"{", "a", "}", "\n">>, <<"{", "a">>, <<"x">> }

\* What one Read of at most cl bytes of a stream holding body can return.
ReadOutcomes(body, cl) ==
    IF cl <= 0
    THEN {[n |-> 0, err |-> "nil"]}
    ELSE LET full == Min(cl, Len(body))
         IN  {[n |-> full, err |-> "nil"]}
             \cup {[n |-> full, err |-> "EOF"] : x \in {y \in {1} : full = Len(body)}}
             \cup {[n |-> k, err |-> "nil"] : k \in 1..(full - 1)}
             \cup {[n |-> k, err |-> "unexpected EOF"] : k \in 0..full}

\* The signature headers tried for a request: none, the digest of the body
\* under the right and under another key, that digest in GitHub's textual
\* form, and the digest of what the handler's buffer will hold.
SigsFor(body, cl, rd) ==
    { NoValue,
      Sum(GoodKey, Bytes(body, 0)),
      Sum(OtherKey, Bytes(body, 0)),
      Hex(Sum(GoodKey, Bytes(body, 0))),
      Sum(GoodKey, Bytes(SubSeq(body, 1, rd.n), IF cl > 0 THEN cl - rd.n ELSE 0)) }

Request(m, e, sig, cl, body, rd) ==
    [Method |-> m, Event |-> e, Sig |-> sig, ContentLength |-> cl, Body |-> body,
     Read |-> rd, RemoteAddr |-> "10.0.0.1:4000"]

\* The requests of the specification SpecOne.
AllRequests ==
    { Request(m, e, sig, cl, body, rd) :
        m \in {"POST", "GET"}, e \in {"", "push", "ping", "bogus"},
        <<body, cl, rd, sig>> \in
          UNION { UNION { UNION { { <<b, c, r, g>> : g \in SigsFor(b, c, r) }
                                  : r \in ReadOutcomes(b, c) }
                          : c \in {-1, 0, Len(b) - 1, Len(b), Len(b) + 1,
                                   maxPayloadLen, maxPayloadLen + 1} }
                  : b \in Bodies } }

\* The requests of the specification Spec: well-formed ones, read in full or
\* short, signed with the right or another key.
FewRequests ==
    { q \in AllRequests :
        /\ q.Method = "POST"
        /\ q.Event \in {"push", "ping"}
        /\ q.Body \in {<<"{", "a", "}">>, <<"{", "b", "}">>}
        /\ q.ContentLength = Len(q.Body)
        /\ q.Read \in {[n |-> Len(q.Body), err |-> "nil"], [n |-> 1, err |-> "nil"]}
        /\ q.Sig \in {Sum(GoodKey, Bytes(q.Body, 0)), Sum(OtherKey, Bytes(q.Body, 0))} }

-----------------------------------------------------------------------------
(* Package tsc: construction of a Script (New).                            *)
(* A string is the sequence of its bytes.                                  *)

\* A byte that begins no UTF-8 encoding.
BadByte == "\\xff"
\* utf8.RuneError
RuneError == "\\uFFFD"

\* As HasSuffix, but suffix may stand anywhere in str.
HasSuffix_Anywhere(str, suffix) ==
    \E k \in 1..(Len(str) - Len(suffix) + 1) :
        SubSeq(str, k, k + Len(suffix) - 1) = suffix

\* strings.HasSuffix(str, suffix)
HasSuffix(str, suffix) ==
    /\ Len(str) >= Len(suffix)
    /\ SubSeq(str, Len(str) - Len(suffix) + 1, Len(str)) = suffix

\* utf8.DecodeRuneInString(str), str being ASCII but for BadByte: the rune
\* and its width.
DecodeRuneInString(str) ==
    IF str = <<>> THEN [r |-> RuneError, n |-> 0]
    ELSE IF Head(str) = BadByte THEN [r |-> RuneError, n |-> 1]
    ELSE [r |-> Head(str), n |-> 1]

\* As ToUpper, but the rune is left as it is.
ToUpper_Identity(r) == r

\* unicode.ToUpper(r)
ToUpper(r) ==
    CASE r = "a" -> "A"
      [] r = "b" -> "B"
      [] r = "t" -> "T"
      [] OTHER -> r

\* An error value of package tsc: its text and the flag name it quotes.
Err(msg, name) == [msg |-> msg, name |-> name]
NoErr == Err("", <<>>)
errOdd == Err("number of arguments for template script must be even", <<>>)
errFlag(name) == Err("invalid flag name: ", name)
errParse == Err("template: parse error", <<>>)
errOpen == Err("open: no such file or directory", <<>>)

\* for i := 0; i < len(args); i += 2 { ... }: the map built of the pairs from
\* the i-th argument on, or the error of the first name that is refused.
RECURSIVE LoopArgs(_, _, _)
LoopArgs(flags, i, m) ==
    IF i > Len(flags)
    THEN [err |-> NoErr, args |-> m]
    ELSE IF Len(flags[i]) < 2 \/ flags[i][1] # "-"
    THEN [err |-> errFlag(flags[i]), args |-> <<>>]
    ELSE LET d == DecodeRuneInString(Tail(flags[i]))
         IN  IF d.r = RuneError
             THEN [err |-> errFlag(flags[i]), args |-> <<>>]
             ELSE LoopArgs(flags, i + 2,
                           Put(m, <<ToUpper(d.r)>> \o SubSeq(flags[i], 2 + d.n, Len(flags[i])),
                               flags[i + 1]))

\* The content of a template file: none (no such file), one that does not
\* parse, or the nodes of the template.
NoFile == [state |-> "missing", nodes |-> <<>>]
BadFile == [state |-> "malformed", nodes |-> <<>>]
Template(nodes) == [state |-> "ok", nodes |-> nodes]

\* The zero Script: what New returns along with an error.
NoScript == [bash |-> FALSE, tmpl |-> <<>>, args |-> <<>>]

\* As NewScript, but the flag names are looked at before the length of the
\* argument list.
NewScript_NamesFirst(file, flags, content) ==
    LET la == LoopArgs(flags, 1, <<>>)
    IN  IF la.err # NoErr
        THEN [err |-> la.err, s |-> NoScript]
        ELSE IF Len(flags) % 2 = 1
        THEN [err |-> errOdd, s |-> NoScript]
        ELSE IF content.state # "ok"
        THEN [err |-> IF content.state = "missing" THEN errOpen ELSE errParse,
              s |-> NoScript]
        ELSE [err |-> NoErr,
              s |-> [bash |-> HasSuffix(file, <<".", "s", "h">>)
                                \/ HasSuffix(file, <<".", "b", "a", "s", "h">>),
                     tmpl |-> content.nodes, args |-> la.args]]

\* tsc.New(file, args), content being what ParseFiles finds under file: the
\* Script it returns, or its error.
NewScript(file, flags, content) ==
    IF Len(flags) % 2 = 1
    THEN [err |-> errOdd, s |-> NoScript]
    ELSE LET la == LoopArgs(flags, 1, <<>>)
         IN  IF la.err # NoErr
             THEN [err |-> la.err, s |-> NoScript]
             ELSE IF content.state # "ok"
             THEN [err |-> IF content.state = "missing" THEN errOpen ELSE errParse,
                   s |-> NoScript]
             ELSE [err |-> NoErr,
                   s |-> [bash |-> HasSuffix(file, <<".", "s", "h">>)
                                     \/ HasSuffix(file, <<".", "b", "a", "s", "h">>),
                          tmpl |-> content.nodes, args |-> la.args]]

-----------------------------------------------------------------------------
(* Package tsc: a run of a Script (Script.Webhook).                        *)

\* The nodes of a template: text, {{.Name}}, {{.Args.Key}}, {{exec ...}},
\* {{sleep "d"}} and {{log ...}}.
Text(chars) == [node |-> "text", chars |-> chars]
NameNode == [node |-> "name", chars |-> <<>>]
ArgNode(key) == [node |-> "arg", chars |-> key]
ExecNode == [node |-> "exec", chars |-> <<>>]
SleepNode(d) == [node |-> "sleep", chars |-> d]
LogNode(chars) == [node |-> "log", chars |-> chars]

\* What {{exec ...}} renders when its command succeeds.
ExecOutput == <<"o", "k">>
\* What a key that Args does not hold renders.
NoValueText == <<"<no value>">>

\* time.ParseDuration(d) succeeds, for the durations written here: decimal
\* digits followed by one of the units s, m, h.
Digits == {"0", "1", "2", "3", "4", "5", "6", "7", "8", "9"}
ParseDuration(d) ==
    /\ Len(d) >= 2
    /\ d[Len(d)] \in {"s", "m", "h"}
    /\ \A k \in 1..(Len(d) - 1) : d[k] \in Digits

\* An error of a run is the sequence of the parts of its text; no error is the
\* empty sequence.
NoError == <<>>
errExec == "exit status 1"
errDuration == "time: invalid duration"
errClose == "close failed"
errCalling(fn, err) == <<"error calling ", fn, ": ", err>>

\* s.tmpl.Execute(w, e) from node i on: the bytes written to w (each node is
\* written as soon as it is rendered), the lines written by {{log}}, and the
\* error that stops the rendering: that of {{exec}} when its command fails,
\* that of {{sleep}} when its duration does not parse.
RECURSIVE Execute(_, _, _, _, _, _)
Execute(nodes, i, e, env, written, logged) ==
    IF i > Len(nodes)
    THEN [err |-> NoError, written |-> written, logged |-> logged]
    ELSE LET n == nodes[i]
         IN  CASE n.node = "text" ->
                    Execute(nodes, i + 1, e, env, written \o n.chars, logged)
               [] n.node = "name" ->
                    Execute(nodes, i + 1, e, env, written \o e.Name, logged)
               [] n.node = "arg" ->
                    Execute(nodes, i + 1, e, env,
                            written \o (IF n.chars \in DOMAIN e.Args
                                        THEN e.Args[n.chars] ELSE NoValueText),
                            logged)
               [] n.node = "exec" ->
                    IF env.exec
                    THEN Execute(nodes, i + 1, e, env, written \o ExecOutput, logged)
                    ELSE [err |-> errCalling("exec", errExec), written |-> written,
                          logged |-> logged]
               [] n.node = "sleep" ->
                    IF ParseDuration(n.chars)
                    THEN Execute(nodes, i + 1, e, env, written, logged)
                    ELSE [err |-> errCalling("sleep", errDuration), written |-> written,
                          logged |-> logged]
               [] OTHER ->
                    Execute(nodes, i + 1, e, env, written, Append(logged, n.chars))

\* As output, but OutputFunc is never called.
output_Discard(out) == "discard"

\* s.output(): the writer of a run in direct mode.  OutputFunc is nil
\* ("none"), or returns a writer that is an io.Closer or one that is not.
output(out) == IF out = "none" THEN "discard" ELSE out

\* As execute, but an error of the rendering is not returned.
execute_Swallows(sc, w, e, env) ==
    LET x == Execute(sc.tmpl, 1, e, env, <<>>, <<>>)
        closed == w = "closer"
    IN  [err |-> IF closed /\ ~env.close THEN <<errClose>> ELSE NoError,
         written |-> x.written, logged |-> x.logged, closed |-> closed]

\* s.execute(w, e): Execute, then Close if w is an io.Closer; the first error
\* of the two.
execute(sc, w, e, env) ==
    LET x == Execute(sc.tmpl, 1, e, env, <<>>, <<>>)
        closed == w = "closer"
    IN  [err |-> IF x.err # NoError THEN x.err
                 ELSE IF closed /\ ~env.close THEN <<errClose>> ELSE NoError,
         written |-> x.written, logged |-> x.logged, closed |-> closed]

\* The sink, the shell and the dump file of a run in which there is none.
NoSink == [kind |-> "none", written |-> <<>>, closed |-> FALSE]
NoShell == [spawned |-> FALSE, stdin |-> <<>>]
NoDump == [state |-> "none", name |-> "", content |-> <<>>]

\* The error of cmd.Run(): bash does not start, or exits with a failure.
errRun(outcome) ==
    IF outcome = "nostart" THEN "exec: \"bash\": executable file not found in $PATH"
    ELSE "exit status 1"
\* f.Name() of the file ioutil.TempFile("webhook", "debug") creates.
DumpName == "webhook/debug"
errTemp == "open webhook/debug: no such file or directory"
errCopy == "write webhook/debug: no space left on device"
errFileClose == "close webhook/debug: input/output error"

\* As dumpScript, but the error of a failed dump replaces that of bash.
dumpScript_DumpErrorOnly(content, err, env) ==
    IF ~env.temp
    THEN [err |-> <<errTemp>>, dump |-> [state |-> "failed", name |-> "", content |-> <<>>]]
    ELSE IF env.copy = "write"
    THEN [err |-> <<errCopy>>,
          dump |-> [state |-> "failed", name |-> DumpName, content |-> <<>>]]
    ELSE IF env.copy = "close"
    THEN [err |-> <<errFileClose>>,
          dump |-> [state |-> "failed", name |-> DumpName, content |-> content]]
    ELSE [err |-> <<DumpName, ": failed with: ", err>>,
          dump |-> [state |-> "written", name |-> DumpName, content |-> content]]

\* runBash after a failure of cmd.Run(): the buffer is dumped to a temporary
\* file; the error returned and the file left behind.  A failed io.Copy is
\* taken to have written nothing.
dumpScript(content, err, env) ==
    IF ~env.temp
    THEN [err |-> <<err, " (failed to dump script file: ", errTemp, ")">>,
          dump |-> [state |-> "failed", name |-> "", content |-> <<>>]]
    ELSE IF env.copy = "write"
    THEN [err |-> <<err, " (failed to dump script file: ", errCopy, ")">>,
          dump |-> [state |-> "failed", name |-> DumpName, content |-> <<>>]]
    ELSE IF env.copy = "close"
    THEN [err |-> <<err, " (failed to dump script file: ", errFileClose, ")">>,
          dump |-> [state |-> "failed", name |-> DumpName, content |-> content]]
    ELSE [err |-> <<DumpName, ": failed with: ", err>>,
          dump |-> [state |-> "written", name |-> DumpName, content |-> content]]

\* runBash once the template is rendered into buf: bash is run on it, and the
\* buffer is dumped when bash fails.
runShell(x, env) ==
    LET ran == [spawned |-> TRUE, stdin |-> x.written]
    IN  IF env.bash = "ok"
        THEN [err |-> NoError, logged |-> x.logged, shell |-> ran, dump |-> NoDump]
        ELSE LET d == dumpScript(x.written, errRun(env.bash), env)
             IN  [err |-> d.err, logged |-> x.logged, shell |-> ran, dump |-> d.dump]

\* As runBash, but bash is run on whatever was rendered, an error of the
\* rendering being returned afterwards.
runBash_Streams(sc, e, env) ==
    LET x == execute(sc, "buffer", e, env)
    IN  IF x.err # NoError
        THEN [err |-> x.err, logged |-> x.logged,
              shell |-> [spawned |-> TRUE, stdin |-> x.written], dump |-> NoDump]
        ELSE runShell(x, env)

\* As runBash, but a failure of bash whose script was dumped is not returned.
runBash_DumpOnly(sc, e, env) ==
    LET x == execute(sc, "buffer", e, env)
        r == runShell(x, env)
    IN  IF x.err # NoError
        THEN [err |-> x.err, logged |-> x.logged, shell |-> NoShell, dump |-> NoDump]
        ELSE IF r.dump.state = "written" THEN [r EXCEPT !.err = NoError] ELSE r

\* s.runBash(e): the template is rendered into a buffer, bash is run on it,
\* and the buffer is dumped to a file when bash fails.
runBash(sc, e, env) ==
    LET x == execute(sc, "buffer", e, env)
    IN  IF x.err # NoError
        THEN [err |-> x.err, logged |-> x.logged, shell |-> NoShell, dump |-> NoDump]
        ELSE runShell(x, env)

errorFormat == "ERROR template script error: %v"
\* An error as an argument of a log line.
ErrArg(err) == [t |-> "error", s |-> err, n |-> 0]

\* s.Webhook(event, payload): what one run leaves behind.
WebhookResult(sc, out, event, env) ==
    LET e == [Name |-> event, Payload |-> "payload", Args |-> sc.args]
    IN  IF sc.bash
        THEN LET b == runBash(sc, e, env)
             IN  [event |-> event, sink |-> NoSink, shell |-> b.shell, dump |-> b.dump,
                  logged |-> b.logged,
                  errors |-> IF b.err # NoError
                             THEN <<logf(errorFormat, <<ErrArg(b.err)>>)>>
                             ELSE <<>>]
        ELSE LET x == execute(sc, output(out), e, env)
             IN  [event |-> event,
                  sink |-> [kind |-> output(out), written |-> x.written,
                            closed |-> x.closed],
                  shell |-> NoShell, dump |-> NoDump, logged |-> x.logged,
                  errors |-> IF x.err # NoError
                             THEN <<logf(errorFormat, <<ErrArg(x.err)>>)>>
                             ELSE <<>>]

-----------------------------------------------------------------------------
(* cmd/webhook: splitCommand.  A command line is the sequence of its       *)
(* bytes; indices count from 1, and 0 stands for the -1 of the code.       *)

Quotes == {"\"", "'"}
Backslash == "\\"

\* push(n), n being the index of the last byte before the cut: nothing when
\* no token was begun; else the token from i on, less its last byte when that
\* is a quote, becomes cmd when cmd is empty and is appended to args otherwise.
pushToken(line, st, n) ==
    IF st.i = 0
    THEN st
    ELSE LET offset == IF line[n] \in Quotes THEN -1 ELSE 0
             token == SubSeq(line, st.i, n + offset)
         IN  IF st.cmd = <<>>
             THEN [st EXCEPT !.cmd = token]
             ELSE [st EXCEPT !.args = Append(@, token)]

\* The body of the loop for the byte at index j.
splitStep(line, st, j) ==
    LET r == line[j]
    IN  IF r \in Quotes \cup {Backslash}
        THEN IF st.quote = "" THEN [st EXCEPT !.quote = r]
             ELSE IF st.quote = Backslash \/ st.quote = r THEN [st EXCEPT !.quote = ""]
             ELSE st
        ELSE IF r = " "
        THEN IF st.quote = "" THEN [pushToken(line, st, j - 1) EXCEPT !.i = 0]
             ELSE IF st.quote = Backslash THEN [st EXCEPT !.quote = ""]
             ELSE st
        ELSE IF st.i = 0 THEN [st EXCEPT !.i = j] ELSE st

\* for j, r := range command { ... } from index j on.
RECURSIVE splitLoop(_, _, _)
splitLoop(line, st, j) ==
    IF j > Len(line) THEN st ELSE splitLoop(line, splitStep(line, st, j), j + 1)

\* splitCommand(command): cmd and args; args without an element is the nil
\* slice, no other empty slice being made.
splitCommand(line) ==
    LET st == splitLoop(line, [cmd |-> <<>>, args |-> <<>>, i |-> 0, quote |-> ""], 1)
        end == pushToken(line, st, Len(line))
    IN  [cmd |-> end.cmd, args |-> end.args]

-----------------------------------------------------------------------------
(* Dump: the handler that wraps another one and dumps the bodies.          *)

\* As TeeReader, but the Read of the wrapped body returns the whole stream.
TeeReader_ReadsAll(req) ==
    [read |-> [n |-> Len(req.Body), err |-> "EOF"], buf |-> req.Body]

\* req.Body = ioutil.NopCloser(io.TeeReader(req.Body, buf)), one Read of it:
\* what the Read returns to the handler, and the bytes it copies into buf.
TeeReader(req) ==
    [read |-> req.Read, buf |-> SubSeq(req.Body, 1, req.Read.n)]

\* The request as the handler under d sees it.
Through(d, req) == IF d.on THEN [req EXCEPT !.Read = TeeReader(req).read] ELSE req

\* now(): the time of day in the layout "2006-01-02 at 03.04.05.000", which
\* has the hour of the 12-hour clock and no AM/PM mark.
now(t) == [ms |-> t.ms]

\* The name of the file of dump: "<event>-<now>.json", or "<now>" when the
\* event is empty.
fileName(event, t) == [event |-> event, stamp |-> now(t), json |-> event # ""]

\* A file name as an argument of a log line.
NameArg(name) == [t |-> "name", s |-> name, n |-> 0]

\* writefile(name, p, 0644) in a directory holding files: os.OpenFile with
\* O_CREATE|O_TRUNC fails, or the Write fails (taken to leave the file empty),
\* or the file holds p.
writefile(files, name, p, outcome) ==
    LET others == {f \in files : f.name # name}
    IN  IF outcome = "open"
        THEN [files |-> files, err |-> "open: permission denied"]
        ELSE IF outcome = "write"
        THEN [files |-> others \cup {[name |-> name, content |-> <<>>]},
              err |-> "short write"]
        ELSE [files |-> others \cup {[name |-> name, content |-> p]}, err |-> ""]
WriteOutcomes == {"ok", "open", "write"}

\* d.dump(event, buf) at time t: the directory and the line logged.
dump(files, event, content, t, outcome) ==
    LET name == fileName(event, t)
        w == writefile(files, name, content, outcome)
    IN  [files |-> w.files, name |-> name, err |-> w.err,
         log |-> IF w.err = ""
                 THEN <<logf("INFO %q: written file", <<NameArg(name)>>)>>
                 ELSE <<logf("ERROR %q: error writing file: %v",
                             <<NameArg(name), Str(w.err)>>)>>]

\* The handlers other than a *webhook.Handler that Dump wraps here: one that
\* reads the body and calls WriteHeader(200) before it writes, one that reads
\* the body and only writes, one that answers without reading the body, and
\* one that answers with http.Error.
GenericHandlers == {"header", "write", "unread", "error"}

\* What such a handler does with a request: the status the client gets, the
\* status it hands to WriteHeader (0: WriteHeader is not called), and whether
\* it reads the body to its end.
genericResult(kind) ==
    CASE kind = "header" -> [code |-> 200, header |-> 200, reads |-> TRUE]
      [] kind = "write"  -> [code |-> 200, header |-> 0, reads |-> TRUE]
      [] kind = "unread" -> [code |-> 200, header |-> 200, reads |-> FALSE]
      [] OTHER           -> [code |-> 500, header |-> 500, reads |-> TRUE]

-----------------------------------------------------------------------------
(* The state machine.                                                      *)

NoResponse == [code |-> 0, body |-> ""]
NoTask == [state |-> "none", remote |-> "", event |-> "", payload |-> NoPayload]

\* The outcomes of a call of a user method.
Outcomes == {"return", "panic", "hang"}

\* The call of tsc.New before it is made: its inputs.
ScriptInput(file, flags, content, out) ==
    [state |-> "pending", file |-> file, flags |-> flags, content |-> content,
     out |-> out, err |-> NoErr, s |-> NoScript]
NoScriptInput == ScriptInput(<<>>, <<>>, NoFile, "none")

\* The handler is not wrapped with Dump.
NoDumper == [on |-> FALSE, handler |-> "webhook"]
Midnight == [pm |-> FALSE, ms |-> 0]
\* The goroutine of d.dump before it is started, its file not yet named.
NoName == [event |-> "", stamp |-> [ms |-> -1], json |-> FALSE]
NoDumpTask ==
    [state |-> "none", event |-> "", buf |-> <<>>, name |-> NoName, log |-> <<>>]

\* splitCommand before it is called, and with no command line to split.
NoSplit == [state |-> "pending", cmd |-> <<>>, args |-> <<>>]

\* The variables of Dump at the start, for n requests.
InitDumpVars(dumpers, n) ==
    /\ command = <<>>
    /\ split = [NoSplit EXCEPT !.state = "none"]
    /\ dumper \in dumpers
    /\ rec = [r \in 1..n |-> 0]
    /\ tee = [r \in 1..n |-> <<>>]
    /\ dtask = [r \in 1..n |-> NoDumpTask]
    /\ dir = {}
    /\ clock = Midnight

InitWithDump(variant, secrets, rcvrs, n, requests, dumpers) ==
    /\ script = NoScriptInput
    /\ runs = <<>>
    /\ InitDumpVars(dumpers, n)
    /\ ver = variant
    /\ exited = FALSE
    /\ args \in [secret : secrets, rcvr : rcvrs]
    /\ ctor = "pending"
    /\ h = NoHandler
    /\ reqs \in [1..n -> requests]
    /\ pc = [r \in 1..n |-> "start"]
    /\ resp = [r \in 1..n |-> NoResponse]
    /\ buf = [r \in 1..n |-> [read |-> FALSE, body |-> NoBytes]]
    /\ v = [r \in 1..n |-> NoPayload]
    /\ task = [r \in 1..n |-> NoTask]
    /\ invoked = [r \in 1..n |-> <<>>]
    /\ logs = [r \in 1..n |-> <<>>]
InitWith(variant, secrets, rcvrs, n, requests) ==
    InitWithDump(variant, secrets, rcvrs, n, requests, {NoDumper})

\* main: webhook.New(secret, rcvr).  A panic ends the program.
New ==
    /\ ctor = "pending"
    /\ LET res == IF ver = 1 THEN oldNewResult(args.secret, args.rcvr)
                  ELSE NewResult(args.secret, args.rcvr)
       IN  /\ ctor' = IF res.panic # "" THEN "panic" ELSE "ok"
           /\ h' = res.handler
    /\ UNCHANGED scriptVars
    /\ UNCHANGED splitVars
    /\ UNCHANGED dumpVars
    /\ UNCHANGED <<ver, exited, args, reqs, pc, resp, buf, v, task, invoked, logs>>

\* ServeHTTP from its entry to a rejection (h.fatal and return) or to the
\* decoded payload.
ServeHTTP(r) ==
    /\ ctor = "ok" /\ ~exited
    /\ dumper.handler = "webhook"
    /\ pc[r] = "start"
    /\ LET res == ServeHTTPResult(h, Through(dumper, reqs[r]))
       IN  /\ tee' = IF dumper.on /\ res.read
                     THEN [tee EXCEPT ![r] = TeeReader(reqs[r]).buf] ELSE tee
           /\ rec' = IF dumper.on /\ res.code # 200
                     THEN [rec EXCEPT ![r] = res.code] ELSE rec
           /\ buf' = [buf EXCEPT ![r] = [read |-> res.read, body |-> res.body]]
           /\ v' = [v EXCEPT ![r] = res.v]
           /\ IF res.code # 200
              THEN /\ logs' = [logs EXCEPT ![r] = Append(@,
                               IF ver = 1 THEN oldFatalLog(reqs[r], res.code, res.err)
                               ELSE fatalLog(reqs[r], res.code, res.err))]
                   /\ resp' = [resp EXCEPT ![r] =
                               [code |-> res.code, body |-> fatalBody(res.code, res.err)]]
                   /\ pc' = [pc EXCEPT ![r] = "returned"]
              ELSE /\ pc' = [pc EXCEPT ![r] = "decoded"]
                   /\ UNCHANGED <<logs, resp>>
    /\ UNCHANGED scriptVars
    /\ UNCHANGED splitVars
    /\ UNCHANGED <<dumper, dtask, dir, clock>>
    /\ UNCHANGED <<ver, exited, args, ctor, h, reqs, task, invoked>>

\* w.WriteHeader(http.StatusOK)
WriteHeader(r) ==
    /\ pc[r] = "decoded" /\ ~exited
    /\ resp' = [resp EXCEPT ![r] = [code |-> 200, body |-> ""]]
    /\ pc' = [pc EXCEPT ![r] = "responded"]
    /\ rec' = IF dumper.on THEN [rec EXCEPT ![r] = 200] ELSE rec
    /\ UNCHANGED scriptVars
    /\ UNCHANGED splitVars
    /\ UNCHANGED <<dumper, tee, dtask, dir, clock>>
    /\ UNCHANGED <<ver, exited, args, ctor, h, reqs, buf, v, task, invoked, logs>>

\* As Go, but the goroutine is started before the status is written.
Go_BeforeWriteHeader(r) ==
    /\ pc[r] = "decoded" /\ ~exited
    /\ task' = [task EXCEPT ![r] = [state |-> "spawned", remote |-> reqs[r].RemoteAddr,
                                    event |-> reqs[r].Event, payload |-> v[r]]]
    /\ pc' = [pc EXCEPT ![r] = "returned"]
    /\ UNCHANGED scriptVars
    /\ UNCHANGED splitVars
    /\ UNCHANGED dumpVars
    /\ UNCHANGED <<ver, exited, args, ctor, h, reqs, resp, buf, v, invoked, logs>>

\* As Go, but the goroutine is started only while no other one is running.
Go_OneInFlight(r) ==
    /\ pc[r] = "responded" /\ ~exited
    /\ \A o \in DOMAIN reqs : task[o].state \notin {"spawned", "hung"}
    /\ task' = [task EXCEPT ![r] = [state |-> "spawned", remote |-> reqs[r].RemoteAddr,
                                    event |-> reqs[r].Event, payload |-> v[r]]]
    /\ pc' = [pc EXCEPT ![r] = "returned"]
    /\ UNCHANGED scriptVars
    /\ UNCHANGED splitVars
    /\ UNCHANGED dumpVars
    /\ UNCHANGED <<ver, exited, args, ctor, h, reqs, resp, buf, v, invoked, logs>>

\* go h.call(req.RemoteAddr, event, v.Interface()), and ServeHTTP returns
Go(r) ==
    /\ pc[r] = "responded" /\ ~exited
    /\ task' = [task EXCEPT ![r] = [state |-> "spawned", remote |-> reqs[r].RemoteAddr,
                                    event |-> reqs[r].Event, payload |-> v[r]]]
    /\ pc' = [pc EXCEPT ![r] = "returned"]
    /\ UNCHANGED scriptVars
    /\ UNCHANGED splitVars
    /\ UNCHANGED dumpVars
    /\ UNCHANGED <<ver, exited, args, ctor, h, reqs, resp, buf, v, invoked, logs>>

\* As Call, but the entry of a method that did not return is taken out of the
\* table.
Call_Unregisters(r) ==
    /\ task[r].state = "spawned" /\ ~exited
    /\ LET res == callResult(h, task[r].remote, task[r].event, task[r].payload)
       IN  \E out \in {"return", "panic", "hang"} :
             /\ out # "return" => res.calls # <<>>
             /\ invoked' = [invoked EXCEPT ![r] = @ \o res.calls]
             /\ logs' = [logs EXCEPT ![r] = IF out = "return" THEN @ \o res.logs ELSE @]
             /\ task' = [task EXCEPT ![r].state =
                            IF out = "panic" THEN "panicked"
                            ELSE IF out = "hang" THEN "hung" ELSE "done"]
             /\ exited' = (out = "panic")
             /\ h' = IF out = "return" THEN h ELSE [h EXCEPT !.method = <<>>]
    /\ UNCHANGED scriptVars
    /\ UNCHANGED splitVars
    /\ UNCHANGED dumpVars
    /\ UNCHANGED <<ver, args, ctor, reqs, pc, resp, buf, v>>

\* How the goroutine of h.call ends up after a user method's outcome.
TaskState(out) ==
    IF out = "panic" THEN "panicked" ELSE IF out = "hang" THEN "hung" ELSE "done"

\* As Call, but the user methods are run one at a time: none is called while
\* another has not returned.
Call_OneAtATime(r) ==
    /\ task[r].state = "spawned" /\ ~exited
    /\ \A o \in DOMAIN reqs : task[o].state # "hung"
    /\ LET res == callResult(h, task[r].remote, task[r].event, task[r].payload)
       IN  \E out \in Outcomes :
             /\ out # "return" => res.calls # <<>>
             /\ invoked' = [invoked EXCEPT ![r] = @ \o res.calls]
             /\ logs' = [logs EXCEPT ![r] = IF out = "return" THEN @ \o res.logs ELSE @]
             /\ task' = [task EXCEPT ![r].state = TaskState(out)]
             /\ exited' = (out = "panic")
    /\ UNCHANGED scriptVars
    /\ UNCHANGED splitVars
    /\ UNCHANGED dumpVars
    /\ UNCHANGED <<ver, args, ctor, h, reqs, pc, resp, buf, v>>

\* The goroutine runs h.call.  The user method it calls returns, panics or
\* never returns; nothing recovers a panic, which ends the process before the
\* line that follows the call is logged; a method that never returns keeps
\* its goroutine, and no line is logged for it.
Call(r) ==
    /\ task[r].state = "spawned" /\ ~exited
    /\ LET res == callResult(h, task[r].remote, task[r].event, task[r].payload)
       IN  \E out \in Outcomes :
             /\ out # "return" => res.calls # <<>>
             /\ invoked' = [invoked EXCEPT ![r] = @ \o res.calls]
             /\ logs' = [logs EXCEPT ![r] = IF out = "return" THEN @ \o res.logs ELSE @]
             /\ task' = [task EXCEPT ![r].state = TaskState(out)]
             /\ exited' = (out = "panic")
    /\ UNCHANGED scriptVars
    /\ UNCHANGED splitVars
    /\ UNCHANGED dumpVars
    /\ UNCHANGED <<ver, args, ctor, h, reqs, pc, resp, buf, v>>

Next ==
    \/ New
    \/ \E r \in DOMAIN reqs : ServeHTTP(r)
    \/ \E r \in DOMAIN reqs : WriteHeader(r)
    \/ \E r \in DOMAIN reqs : Go(r)
    \/ \E r \in DOMAIN reqs : Call(r)

\* Concurrent requests served by one Handler.
Init == InitWith(2, Secrets, SomeRcvrs, MaxReq, FewRequests)
Spec == Init /\ [][Next]_vars

\* The scheduling of Go: the main goroutine, the goroutine of every ServeHTTP
\* call and every goroutine started by `go h.call` keep being run.
Fairness ==
    /\ WF_vars(New)
    /\ \A r \in 1..MaxReq :
          /\ WF_vars(ServeHTTP(r)) /\ WF_vars(WriteHeader(r))
          /\ WF_vars(Go(r)) /\ WF_vars(Call(r))
\* Concurrent requests, accepted and rejected, served by one Handler whose
\* methods may return, panic or hang.
InitFair ==
    InitWith(2, {GoodKey}, {<<mAll, mPush>>, <<mPush>>}, MaxReq,
             {q \in FewRequests : q.Body = <<"{", "a", "}">>})
SpecFair == InitFair /\ [][Next]_vars /\ Fairness

-----------------------------------------------------------------------------
(* The state machine of Dump.                                              *)

\* d.handler.ServeHTTP(rec, req) of a handler that is no *webhook.Handler.
Serve(r) ==
    /\ dumper.handler \in GenericHandlers /\ ~exited
    /\ pc[r] = "start"
    /\ LET res == genericResult(dumper.handler)
       IN  /\ resp' = [resp EXCEPT ![r] = [code |-> res.code, body |-> ""]]
           /\ tee' = IF dumper.on /\ res.reads
                     THEN [tee EXCEPT ![r] = reqs[r].Body] ELSE tee
           /\ rec' = IF dumper.on /\ res.header # 0
                     THEN [rec EXCEPT ![r] = res.header] ELSE rec
    /\ pc' = [pc EXCEPT ![r] = "returned"]
    /\ UNCHANGED scriptVars
    /\ UNCHANGED splitVars
    /\ UNCHANGED <<dumper, dtask, dir, clock>>
    /\ UNCHANGED <<ver, exited, args, ctor, h, reqs, buf, v, task, invoked, logs>>

\* dumper.ServeHTTP once d.handler.ServeHTTP has returned:
\* if rec.status == 200 { go d.dump(event, buf) }, and it returns.
DumpGo(r) ==
    /\ dumper.on /\ ~exited
    /\ pc[r] = "returned" /\ dtask[r].state = "none"
    /\ dtask' = [dtask EXCEPT ![r] =
                    IF rec[r] = 200
                    THEN [NoDumpTask EXCEPT !.state = "spawned",
                                            !.event = reqs[r].Event, !.buf = tee[r]]
                    ELSE [NoDumpTask EXCEPT !.state = "skipped"]]
    /\ UNCHANGED scriptVars
    /\ UNCHANGED splitVars
    /\ UNCHANGED webhookVars
    /\ UNCHANGED <<dumper, rec, tee, dir, clock>>

\* The times time.Now() returns here: two successive milliseconds of a
\* morning, and the second of them twelve hours later; time never goes back.
Times == {Midnight, [pm |-> FALSE, ms |-> 1], [pm |-> TRUE, ms |-> 1]}
Earlier(t, u) == (~t.pm /\ u.pm) \/ (t.pm = u.pm /\ t.ms < u.ms)

\* The goroutine of d.dump runs: the file is named after the event and the
\* time it reads, and written.
DumpWrite(r) ==
    /\ dtask[r].state = "spawned" /\ ~exited
    /\ \E outcome \in WriteOutcomes, t \in Times :
          LET res == dump(dir, dtask[r].event, dtask[r].buf, t, outcome)
          IN  /\ ~Earlier(t, clock)
              /\ clock' = t
              /\ dir' = res.files
              /\ dtask' = [dtask EXCEPT ![r].state = IF res.err = "" THEN "written"
                                                     ELSE "failed",
                                        ![r].name = res.name, ![r].log = res.log]
    /\ UNCHANGED scriptVars
    /\ UNCHANGED splitVars
    /\ UNCHANGED webhookVars
    /\ UNCHANGED <<dumper, rec, tee>>

DumpNext ==
    \/ Next
    \/ \E r \in DOMAIN reqs : Serve(r)
    \/ \E r \in DOMAIN reqs : DumpGo(r)
    \/ \E r \in DOMAIN reqs : DumpWrite(r)

\* The requests sent through Dump: push events signed with the right key or
\* another one and read whole or short, and a ping event.
DumpRequests ==
    { q \in FewRequests :
        /\ q.Body = <<"{", "a", "}">>
        /\ \/ q.Event = "push" /\ q.Sig.key = GoodKey
           \/ q.Read.n = Len(q.Body) /\ (q.Event = "push" \/ q.Sig.key = GoodKey) }

\* Dump(dir, handler) around New(secret, BlanketHandler{}) or around another
\* handler, and the handler without Dump.
Dumpers == [on : {TRUE}, handler : {"webhook"} \cup GenericHandlers]
InitDump == InitWithDump(2, {GoodKey}, {<<mAll>>}, MaxReq, DumpRequests, Dumpers)
SpecDump == InitDump /\ [][DumpNext]_vars

\* One request, of every shape, served by one Handler.
InitOne == InitWith(2, Secrets, SomeRcvrs, 1, AllRequests)
SpecOne == InitOne /\ [][Next]_vars

\* Every receiver object handed to New, and one request.
InitNew ==
    InitWith(2, Secrets, RcvrsUpTo(MaxMethods) \cup TestRcvrs, 1,
             {q \in FewRequests : q.Body = <<"{", "a", "}">>})
SpecNew == InitNew /\ [][Next]_vars

\* The earlier variant of the file: one request, of every shape.
InitOld == InitWith(1, Secrets, SomeRcvrs, 1, AllRequests)
SpecOld == InitOld /\ [][Next]_vars

-----------------------------------------------------------------------------
(* The state machine of splitCommand.                                      *)

\* A token as it is written in a command line, and as it is meant.
Token(text, want) == [text |-> text, want |-> want]
\* git.exe, "git.exe", "a file", 'a file', another\ file and C:\git, each
\* shortened to a few bytes.
Tokens ==
    { Token(<<"g">>, <<"g">>),
      Token(<<"\"", "g", "\"">>, <<"g">>),
      Token(<<"\"", "a", " ", "f", "\"">>, <<"a", " ", "f">>),
      Token(<<"'", "a", " ", "f", "'">>, <<"a", " ", "f">>),
      Token(<<"a", Backslash, " ", "f">>, <<"a", Backslash, " ", "f">>),
      Token(<<"C", Backslash, "g">>, <<"C", Backslash, "g">>) }

\* The command line of a sequence of tokens: the tokens, one space between two.
RECURSIVE Line(_)
Line(toks) ==
    IF toks = <<>> THEN <<>>
    ELSE IF Len(toks) = 1 THEN toks[1].text
    ELSE toks[1].text \o <<" ">> \o Line(Tail(toks))

InitSplit ==
    /\ command \in UNION {[1..k -> Tokens] : k \in 1..MaxTokens}
    /\ split = NoSplit
    /\ script = NoScriptInput /\ runs = <<>>
    /\ dumper = NoDumper /\ rec = <<>> /\ tee = <<>> /\ dtask = <<>>
    /\ dir = {} /\ clock = Midnight
    /\ ver = 2 /\ exited = FALSE
    /\ args = [secret |-> GoodKey, rcvr |-> <<>>]
    /\ ctor = "pending" /\ h = NoHandler
    /\ reqs = <<>> /\ pc = <<>> /\ resp = <<>> /\ buf = <<>> /\ v = <<>>
    /\ task = <<>> /\ invoked = <<>> /\ logs = <<>>

\* cmd, args := splitCommand(command)
SplitCommand ==
    /\ split.state = "pending"
    /\ LET res == splitCommand(Line(command))
       IN  split' = [state |-> "done", cmd |-> res.cmd, args |-> res.args]
    /\ UNCHANGED command
    /\ UNCHANGED scriptVars
    /\ UNCHANGED webhookVars
    /\ UNCHANGED dumpVars

SplitNext == SplitCommand
SpecSplit == InitSplit /\ [][SplitNext]_vars

-----------------------------------------------------------------------------
(* The state machine of package tsc.                                       *)

xsh == <<"x", ".", "s", "h">>
xtsc == <<"x", ".", "t", "s", "c">>
\* File names: with and without the suffixes of shell mode.
Files ==
    { xsh, <<"x", ".", "b", "a", "s", "h">>, xtsc, <<".", "s", "h">>, <<"s", "h">>,
      <<"x", ".", "s", "h", ".", "t">>, <<"x", "b", "a", "s", "h">> }

wToken == <<"-", "t", "o", "k", "e", "n">>
wTokenUp == <<"-", "T", "o", "k", "e", "n">>
wValue == <<"t", "1">>
\* Arguments: flag names that New accepts, names it refuses, and values.
Words == { wToken, wTokenUp, <<"-">>, wValue, <<"-", BadByte>>, <<"1">> }

\* Every argument list of at most n words.
FlagsUpTo(n) == UNION {[1..k -> Words] : k \in 0..n}

tName == Template(<<NameNode>>)
tEcho == Template(<<Text(<<"e", " ">>), NameNode, ArgNode(<<"T", "o", "k", "e", "n">>)>>)
tExec == Template(<<Text(<<"x">>), ExecNode, Text(<<"y">>)>>)
tLog  == Template(<<LogNode(<<"h", "i">>), NameNode, ArgNode(<<"A">>)>>)
tSleep == Template(<<Text(<<"a">>), SleepNode(<<"1", "s">>), Text(<<"b">>)>>)
tSleepBad == Template(<<Text(<<"a">>), SleepNode(<<"1">>), Text(<<"b">>)>>)

push == <<"p", "u", "s", "h">>
ping == <<"p", "i", "n", "g">>
EventNames == {push, ping}

\* What the environment does to one run: whether the command of {{exec}},
\* the Close of the writer and ioutil.TempFile succeed, whether bash runs,
\* fails or does not start, and whether the write or the Close of the dump
\* file fails.
Envs ==
    [exec : BOOLEAN, close : BOOLEAN, bash : {"ok", "exit", "nostart"}, temp : BOOLEAN,
     copy : {"ok", "write", "close"}]

InitScriptWith(files, flagLists, contents, outs) ==
    /\ script \in {ScriptInput(f, a, c, o) :
                      f \in files, a \in flagLists, c \in contents, o \in outs}
    /\ runs = <<>>
    /\ InitDumpVars({NoDumper}, 0)
    /\ ver = 2 /\ exited = FALSE
    /\ args = [secret |-> GoodKey, rcvr |-> <<>>]
    /\ ctor = "pending" /\ h = NoHandler
    /\ reqs = <<>> /\ pc = <<>> /\ resp = <<>> /\ buf = <<>> /\ v = <<>>
    /\ task = <<>> /\ invoked = <<>> /\ logs = <<>>

\* main: tsc.New(config.Script, config.ScriptArgs)
ScriptNew ==
    /\ script.state = "pending"
    /\ LET res == NewScript(script.file, script.flags, script.content)
       IN  script' = [script EXCEPT !.state = IF res.err = NoErr THEN "ok" ELSE "error",
                                    !.err = res.err, !.s = res.s]
    /\ UNCHANGED runs
    /\ UNCHANGED webhookVars
    /\ UNCHANGED splitVars
    /\ UNCHANGED dumpVars

\* As Webhook, but a run that logged an error leaves the Script without its
\* arguments.
Webhook_ForgetsArgs(event, env) ==
    /\ script.state = "ok"
    /\ Len(runs) < MaxRuns
    /\ LET run == WebhookResult(script.s, script.out, event, env)
       IN  /\ runs' = Append(runs, run)
           /\ script' = IF run.errors = <<>> THEN script
                        ELSE [script EXCEPT !.s.args = <<>>]
    /\ UNCHANGED webhookVars
    /\ UNCHANGED splitVars
    /\ UNCHANGED dumpVars

\* One call of s.Webhook(event, payload), from its entry to its return.
Webhook(event, env) ==
    /\ script.state = "ok"
    /\ Len(runs) < MaxRuns
    /\ runs' = Append(runs, WebhookResult(script.s, script.out, event, env))
    /\ UNCHANGED script
    /\ UNCHANGED webhookVars
    /\ UNCHANGED splitVars
    /\ UNCHANGED dumpVars

ScriptNext ==
    \/ ScriptNew
    \/ \E event \in EventNames, env \in Envs : Webhook(event, env)

\* Every argument list and file name handed to tsc.New.
InitScriptNew ==
    InitScriptWith(Files, FlagsUpTo(MaxArgs), {NoFile, BadFile, tName}, {"none"})
\* The runs that follow a construction: one in which nothing fails, one in
\* which bash exits with a failure.
OkEnv == [exec |-> TRUE, close |-> TRUE, bash |-> "ok", temp |-> TRUE, copy |-> "ok"]
FewEnvs == {OkEnv, [OkEnv EXCEPT !.bash = "exit"]}
ScriptNewNext ==
    \/ ScriptNew
    \/ \E event \in EventNames, env \in FewEnvs : Webhook(event, env)
SpecScriptNew == InitScriptNew /\ [][ScriptNewNext]_vars

\* Runs of a few Scripts, in both modes, with every writer and every failure.
InitScript ==
    InitScriptWith({xsh, xtsc}, {<<>>, <<wToken, wValue>>},
                   {tName, tEcho, tExec, tLog, tSleep, tSleepBad},
                   {"none", "buffer", "closer"})
SpecScript == InitScript /\ [][ScriptNext]_vars

\* The same Scripts, each run FewRuns times at most.
WebhookOnce(event, env) ==
    /\ Len(runs) < FewRuns
    /\ Webhook(event, env)
RunNext ==
    \/ ScriptNew
    \/ \E event \in EventNames, env \in Envs : WebhookOnce(event, env)
SpecRun == InitScript /\ [][RunNext]_vars

-----------------------------------------------------------------------------
(* Vocabulary of the properties.                                           *)

Returned(r) == pc[r] = "returned"
Dispatched(r) == task[r].state # "none"
NothingDispatched(r) == task[r] = NoTask /\ invoked[r] = <<>>

\* The request's body as the sender wrote it.
Sent(q) == Bytes(q.Body, 0)

\* m has the shape of a specific handler of event e / of the wildcard handler.
SpecificFor(m, e) ==
    /\ m.PkgPath = ""
    /\ m.In = <<Rcvr, Ptr(payloads[e])>>
Wildcard(m) ==
    /\ m.PkgPath = ""
    /\ m.In = <<Rcvr, TString, empty>>
Range(s) == {s[i] : i \in DOMAIN s}

\* The one line logged for request r ends with the text of err.
LoggedErr(r, err) ==
    Len(logs[r]) = 1 /\ logs[r][1].args[Len(logs[r][1].args)] = Str(err)

\* The request passes the method, header and length checks, and its declared
\* length is the length of its body.
WellFormed(q) ==
    /\ q.Method = "POST"
    /\ q.Event # ""
    /\ q.Sig # NoValue
    /\ q.ContentLength = Len(q.Body)
    /\ q.ContentLength > 0
    /\ q.Read.err \in {"nil", "EOF"}

-----------------------------------------------------------------------------
\* C1: a well-formed POST request whose signature header is the digest of its
\* body under the configured secret, whose event name is registered and whose
\* body decodes, is answered 200 and has exactly one dispatch, started with
\* the payload decoded from its body.
C1_Claim ==
    \A r \in DOMAIN reqs :
        LET q == reqs[r]
        IN  ( /\ Returned(r)
              /\ WellFormed(q)
              /\ q.Sig = Sum(h.secret, Sent(q))
              /\ q.Event \in DOMAIN payloads
              /\ Decode(payloads[q.Event], Sent(q)).err = "" )
            => /\ resp[r].code = 200
               /\ Dispatched(r)
               /\ task[r].payload = Decode(payloads[q.Event], Sent(q)).v

\* C2: a request that reaches the signature check with a signature header
\* other than the digest of its body under the configured secret is answered
\* 401, and nothing is dispatched for it.
C2_Claim ==
    \A r \in DOMAIN reqs :
        LET q == reqs[r]
        IN  ( /\ Returned(r)
              /\ WellFormed(q)
              /\ q.Sig # Sum(h.secret, Sent(q)) )
            => /\ resp[r].code = 401
               /\ NothingDispatched(r)

\* C3: the goroutine of a request exists, and a user method has been called
\* for it, only once its 200 is written; after the 200 the one step left to
\* ServeHTTP is to start the goroutine and return, which it can do whenever
\* the process runs, and nothing rewrites the response while the goroutine runs.
C3_DispatchAfterOK ==
    \A r \in DOMAIN reqs :
        /\ (Dispatched(r) \/ invoked[r] # <<>>) =>
               resp[r] = [code |-> 200, body |-> ""] /\ Returned(r)
        /\ (pc[r] = "responded" /\ ~exited) => resp[r].code = 200 /\ ENABLED Go(r)

\* ServeHTTP has returned for one request whose goroutine has not run yet,
\* while the goroutine of another has called a user method.
C3_Witness ==
    \E r, o \in DOMAIN reqs :
        /\ Returned(r) /\ task[r].state = "spawned" /\ resp[r].code = 200
        /\ task[o].state = "done" /\ invoked[o] # <<>>

\* C4: the status (and the logged error) of a request is that of the first
\* check it fails, in the order method, headers, length, read, signature,
\* registry, decode; and a goroutine is only ever started with the payload
\* decoded from a buffer whose signature was verified.
C4_FirstFailingCheck ==
    \A r \in DOMAIN reqs :
        LET q == reqs[r]
            body == ReadBody(q)
            is(code, err) == resp[r].code = code /\ LoggedErr(r, err)
            okMethod == q.Method = "POST"
            okHeaders == q.Event # "" /\ q.Sig # NoValue
            okLength == q.ContentLength > 0 /\ q.ContentLength <= maxPayloadLen
            okRead == q.Read.err \in {"nil", "EOF"}
            okSig == q.Sig = Sum(h.secret, body)
            okType == q.Event \in DOMAIN payloads
            okJSON == Decode(payloads[q.Event], body).err = ""
        IN  /\ Returned(r) =>
               CASE ~okMethod  -> is(405, errMethod)
                 [] okMethod /\ ~okHeaders -> is(400, errHeaders)
                 [] okMethod /\ okHeaders /\ ~okLength -> is(400, errHeaders)
                 [] okMethod /\ okHeaders /\ okLength /\ ~okRead -> is(500, q.Read.err)
                 [] okMethod /\ okHeaders /\ okLength /\ okRead /\ ~okSig ->
                        is(401, errSig)
                 [] okMethod /\ okHeaders /\ okLength /\ okRead /\ okSig /\ ~okType ->
                        is(400, errPayload)
                 [] OTHER ->
                        IF okJSON THEN resp[r].code = 200 /\ Dispatched(r)
                        ELSE is(400, "json: syntax error")
            /\ (Dispatched(r) \/ invoked[r] # <<>>) =>
                   /\ okMethod /\ okHeaders /\ okLength /\ okRead /\ okSig /\ okType
                   /\ okJSON
                   /\ task[r].payload = Decode(payloads[q.Event], body).v

\* A request with a bad signature and an unregistered event name, answered 401.
C4_Witness ==
    \E r \in DOMAIN reqs :
        /\ Returned(r) /\ WellFormed(reqs[r])
        /\ reqs[r].Event = "bogus"
        /\ reqs[r].Sig = Sum(OtherKey, Sent(reqs[r]))
        /\ resp[r].code = 401

\* C5: of a handler object with a specific method for event E and a wildcard
\* method, a finished dispatch of E has called the specific method alone, with
\* the payload; a finished dispatch of an event without a specific method has
\* called the wildcard method alone, with the request's event name and the
\* payload.
C5_SpecificBeforeWildcard ==
    \A r \in DOMAIN reqs :
        \A w \in Range(h.rcvr) :
            (task[r].state = "done" /\ Wildcard(w)) =>
                LET e == reqs[r].Event
                    specific == {m \in Range(h.rcvr) : SpecificFor(m, e)}
                IN  IF specific # {}
                    THEN \E m \in specific :
                            invoked[r] = <<[method |-> m.Name,
                                            in |-> [payload |-> task[r].payload]]>>
                    ELSE invoked[r] = <<[method |-> w.Name,
                                         in |-> [event |-> e, payload |-> task[r].payload]]>>

\* One handler with Push and All has served a push (Push called) and a ping
\* (All called with "ping").
C5_Witness ==
    \E r, o \in DOMAIN reqs :
        /\ h.rcvr = <<mAll, mPush>>
        /\ task[r].state = "done" /\ reqs[r].Event = "push"
        /\ invoked[r][1].method = "Push"
        /\ task[o].state = "done" /\ reqs[o].Event = "ping"
        /\ invoked[o][1].method = "All" /\ invoked[o][1].in.event = "ping"

NothingServed ==
    /\ h = NoHandler
    /\ \A r \in DOMAIN reqs : pc[r] = "start" /\ resp[r] = NoResponse /\ ~Dispatched(r)

\* C6: once New has ended for an object with two exported methods that take a
\* pointer to the same registered payload type, in whatever order, it has
\* panicked: there is no Handler and no request is served.
C6_DuplicateSpecificPanics ==
    ( /\ ctor # "pending"
      /\ \E i, j \in DOMAIN args.rcvr, e \in DOMAIN payloads :
            i # j /\ SpecificFor(args.rcvr[i], e) /\ SpecificFor(args.rcvr[j], e) )
    => ctor = "panic" /\ NothingServed

\* New has panicked on Push and OnPush, given a secret and no other fault.
C6_Witness ==
    /\ ctor = "panic" /\ args.secret # ""
    /\ args.rcvr \in {<<mPush, mOnPush>>, <<mOnPush, mPush>>}

\* C7: once New has ended for an object with two exported methods of the
\* wildcard shape, it has panicked: there is no Handler, no request is served.
C7_DuplicateWildcardPanics ==
    ( /\ ctor # "pending"
      /\ \E i, j \in DOMAIN args.rcvr :
            i # j /\ Wildcard(args.rcvr[i]) /\ Wildcard(args.rcvr[j]) )
    => ctor = "panic" /\ NothingServed

\* New has panicked on All and Any, given a secret and no other fault.
C7_Witness ==
    /\ ctor = "panic" /\ args.secret # ""
    /\ args.rcvr \in {<<mAll, mAny>>, <<mAny, mAll>>}

\* C8: New with an empty secret panics and returns no Handler; a Handler that
\* exists, or has served anything, has a non-empty secret.
C8_EmptySecretPanics ==
    /\ (ctor # "pending" /\ args.secret = "") => ctor = "panic" /\ NothingServed
    /\ (ctor = "ok" \/ \E r \in DOMAIN reqs : pc[r] # "start") => h.secret # ""

\* New has panicked on an empty secret and an object it accepts otherwise.
C8_Witness ==
    /\ ctor = "panic" /\ args.secret = ""
    /\ args.rcvr = <<mAll, mPush>>

\* C9: a request whose method is not POST is answered 405 with the status
\* text, whatever else it holds; its body is not read, nothing is dispatched.
C9_NotPostIs405 ==
    \A r \in DOMAIN reqs :
        reqs[r].Method # "POST" =>
            /\ NothingDispatched(r)
            /\ ~buf[r].read
            /\ Returned(r) => resp[r] = [code |-> 405, body |-> "Method Not Allowed"]

\* A GET request, faultless but for its method, answered 405.
C9_Witness ==
    \E r \in DOMAIN reqs :
        LET q == reqs[r]
        IN  /\ Returned(r) /\ q.Method = "GET" /\ resp[r].code = 405
            /\ q.Event = "push" /\ q.Sig = Sum(h.secret, Sent(q))
            /\ q.ContentLength = Len(q.Body) /\ q.Read.n = Len(q.Body)

\* C10: a POST request whose event-name header or signature header is empty
\* is answered 400; its body is never read and nothing is dispatched.
C10_MissingHeaderIs400 ==
    \A r \in DOMAIN reqs :
        (reqs[r].Method = "POST" /\ (reqs[r].Event = "" \/ reqs[r].Sig = NoValue)) =>
            /\ NothingDispatched(r)
            /\ ~buf[r].read
            /\ Returned(r) =>
                   /\ resp[r] = [code |-> 400, body |-> "Bad Request"]
                   /\ LoggedErr(r, errHeaders)

\* A POST request without event name, faultless otherwise, answered 400.
C10_Witness ==
    \E r \in DOMAIN reqs :
        LET q == reqs[r]
        IN  /\ Returned(r) /\ q.Method = "POST" /\ resp[r].code = 400
            /\ q.Event = "" /\ q.Sig = Sum(h.secret, Sent(q))
            /\ q.ContentLength = Len(q.Body) /\ q.Read.n = Len(q.Body)

\* The request passes the method and header checks.
ReachesLengthCheck(q) ==
    q.Method = "POST" /\ q.Event # "" /\ q.Sig # NoValue

Declared(q) == Bytes(SubSeq(q.Body, 1, q.ContentLength), 0)

\* C12: once the body of a request has been read without a failure, the
\* buffer that is digested and decoded holds exactly the declared number of
\* bytes of the body, however many bytes the one Read delivered; the payload
\* of a dispatch is the one decoded from those bytes.
C12_Claim ==
    \A r \in DOMAIN reqs :
        LET q == reqs[r]
        IN  ( /\ buf[r].read
              /\ q.Read.err \in {"nil", "EOF"}
              /\ q.ContentLength <= Len(q.Body) )
            => /\ buf[r].body = Declared(q)
               /\ Dispatched(r) =>
                      task[r].payload = Decode(payloads[q.Event], Declared(q)).v

\* The request passes the method, header and length checks: its body is read.
ReachesRead(q) ==
    /\ ReachesLengthCheck(q)
    /\ q.ContentLength > 0 /\ q.ContentLength <= maxPayloadLen

\* C13: a request whose Read fails with an error other than io.EOF is
\* answered 500 with the status text, that error is logged and nothing is
\* dispatched; a Read that ends with io.EOF is no failure: the request is
\* never answered 500, and it is answered 401 exactly when its signature
\* header is not the digest of the buffer.
C13_ReadError ==
    \A r \in DOMAIN reqs :
        LET q == reqs[r]
        IN  (Returned(r) /\ ReachesRead(q)) =>
                /\ q.Read.err \notin {"nil", "EOF"} =>
                       /\ resp[r] = [code |-> 500, body |-> "Internal Server Error"]
                       /\ LoggedErr(r, q.Read.err)
                       /\ NothingDispatched(r)
                /\ q.Read.err = "EOF" =>
                       /\ resp[r].code # 500
                       /\ resp[r].code = 401 <=> q.Sig # Sum(h.secret, ReadBody(q))

\* A request whose body arrived in full and is signed, but whose Read reported
\* a failure, has been answered 500.
C13_Witness ==
    \E r \in DOMAIN reqs :
        LET q == reqs[r]
        IN  /\ Returned(r) /\ ReachesRead(q) /\ resp[r].code = 500
            /\ q.Read = [n |-> Len(q.Body), err |-> "unexpected EOF"]
            /\ q.ContentLength = Len(q.Body)
            /\ q.Sig = Sum(h.secret, Sent(q)) /\ q.Event = "push"

\* The request is well-formed and its signature header is the digest of its
\* body under the configured secret.
CorrectlySigned(q) == WellFormed(q) /\ q.Sig = Sum(h.secret, Sent(q))

\* C14: a correctly signed request whose event name is not in the registry is
\* answered 400 with the status text, and nothing is dispatched for it: no
\* method is called, the wildcard method included.
C14_Claim ==
    \A r \in DOMAIN reqs :
        LET q == reqs[r]
        IN  (Returned(r) /\ CorrectlySigned(q) /\ q.Event \notin DOMAIN payloads) =>
                /\ resp[r] = [code |-> 400, body |-> "Bad Request"]
                /\ NothingDispatched(r)

\* C15: a correctly signed request with a registered event name whose body
\* does not decode as JSON into the registered type is answered 400 with the
\* status text, and nothing is dispatched for it.
C15_Claim ==
    \A r \in DOMAIN reqs :
        LET q == reqs[r]
        IN  ( /\ Returned(r) /\ CorrectlySigned(q)
              /\ q.Event \in DOMAIN payloads
              /\ Decode(payloads[q.Event], Sent(q)).err # "" )
            => /\ resp[r] = [code |-> 400, body |-> "Bad Request"]
               /\ NothingDispatched(r)

\* The goroutine of request r has ended, by a return or by a panic.
Ended(r) == task[r].state \in {"done", "panicked"}

\* The receiver object has a method for event e: a specific one or a wildcard.
Handled(e) == \E m \in Range(h.rcvr) : SpecificFor(m, e) \/ Wildcard(m)

\* The default action was performed for request r: its line is in the log.
DefaultAction(r) == \E i \in DOMAIN logs[r] : logs[r][i].format = pingFormat

\* C16: when the goroutine of a request has ended and the receiver object has
\* neither a specific method for its event nor a wildcard method, no user
\* method was called and the default action was performed exactly if the
\* event is "ping"; when it has one of the two, a user method was called and
\* the default action was not performed.
C16_DefaultOnlyForPing ==
    \A r \in DOMAIN reqs :
        Ended(r) =>
            IF Handled(task[r].event)
            THEN invoked[r] # <<>> /\ ~DefaultAction(r)
            ELSE /\ invoked[r] = <<>>
                 /\ DefaultAction(r) <=> task[r].event = "ping"
                 /\ DefaultAction(r) =>
                        logs[r] = <<pingLog(reqs[r].RemoteAddr, task[r].payload)>>

\* A ping served by a Handler whose object has a method for push alone: the
\* default action was performed and no method was called.
C16_Witness ==
    \E r \in DOMAIN reqs :
        /\ task[r].state = "done" /\ task[r].event = "ping"
        /\ h.rcvr = <<mPush>>
        /\ DefaultAction(r) /\ invoked[r] = <<>>

\* The text sent with each status of a rejection.
GenericText ==
    [code \in {400, 401, 405, 500} |->
        IF code = 400 THEN "Bad Request"
        ELSE IF code = 401 THEN "Unauthorized"
        ELSE IF code = 405 THEN "Method Not Allowed"
        ELSE "Internal Server Error"]

\* C17: the body of the response to a rejected request is the text that goes
\* with its status, one text per status: it is the same for every request,
\* secret, receiver object and error that leads to that status.
C17_BodyFromStatusAlone ==
    \A r \in DOMAIN reqs :
        (Returned(r) /\ resp[r].code # 200) =>
            /\ resp[r].code \in DOMAIN GenericText
            /\ resp[r].body = GenericText[resp[r].code]

\* A signed request whose body does not decode: the decoder's error is logged
\* and the caller is sent the text of status 400.
C17_Witness ==
    \E r \in DOMAIN reqs :
        /\ Returned(r) /\ resp[r] = [code |-> 400, body |-> "Bad Request"]
        /\ LoggedErr(r, "json: syntax error")

\* Request r has been rejected: answered with a status other than 200.
Rejected(r) == Returned(r) /\ resp[r].code # 200

\* C18: a request never has more than one log line; it has exactly one once
\* it is rejected, and exactly one once h.call has run to its end for it,
\* whatever its event name and the receiver object.
C18_Claim ==
    \A r \in DOMAIN reqs :
        /\ Len(logs[r]) <= 1
        /\ Rejected(r) => Len(logs[r]) = 1
        /\ task[r].state = "done" => Len(logs[r]) = 1

\* C18 (amended): a request never has more than one log line and has none
\* before it is rejected or h.call has run to its end for it; once rejected
\* it has exactly the line of h.fatal; once h.call has run to its end it has
\* exactly one line if the object has a method for its event or the event is
\* "ping", and none otherwise.
C18_OneLineUnlessUnhandled ==
    \A r \in DOMAIN reqs :
        /\ Len(logs[r]) <= 1
        /\ Rejected(r) => Len(logs[r]) = 1 /\ logs[r][1].format = fatalFormat
        /\ task[r].state = "done" =>
               Len(logs[r]) = IF Handled(task[r].event) \/ task[r].event = "ping"
                              THEN 1 ELSE 0
        /\ (~Rejected(r) /\ task[r].state # "done") => logs[r] = <<>>

\* A Handler whose object has no method has served a push, which left no log
\* line, and a ping, which left one.
C18_Witness ==
    \E r, o \in DOMAIN reqs :
        /\ h.rcvr = <<>>
        /\ task[r].state = "done" /\ task[r].event = "push" /\ logs[r] = <<>>
        /\ task[o].state = "done" /\ task[o].event = "ping" /\ Len(logs[o]) = 1

\* C19: the one log line of a rejected request carries, as the first four
\* arguments of its format, the remote address, the status, the event name
\* and the declared length of the request, in this order; the status logged
\* is the status of the response.
C19_Claim ==
    \A r \in DOMAIN reqs :
        Rejected(r) =>
            /\ Len(logs[r]) = 1
            /\ Len(logs[r][1].args) >= 4
            /\ SubSeq(logs[r][1].args, 1, 4) =
                   <<Str(reqs[r].RemoteAddr), Num(resp[r].code), Str(reqs[r].Event),
                     Num(reqs[r].ContentLength)>>

\* Whatever step request o is at, it can be taken.
CanGoOn(o) ==
    /\ pc[o] = "start" => ENABLED ServeHTTP(o)
    /\ pc[o] = "decoded" => ENABLED WriteHeader(o)
    /\ pc[o] = "responded" => ENABLED Go(o)
    /\ task[o].state = "spawned" => ENABLED Call(o)

\* C20: when the user method called for a request has panicked, the response
\* of that request is still the 200 written before, and every other request
\* goes on being served and dispatched.
C20_Claim ==
    \A r \in DOMAIN reqs :
        task[r].state = "panicked" =>
            /\ resp[r] = [code |-> 200, body |-> ""]
            /\ \A o \in DOMAIN reqs \ {r} : CanGoOn(o)

\* The user method called for a request other than o has not returned and
\* never will.
HungOther(o) == \E r \in DOMAIN reqs : r # o /\ task[r].state = "hung"

\* C21: while the user method of one request never returns, every other
\* request, whatever step it is at, comes to be rejected or to have its own
\* user method called by its own goroutine (unless a panic ends the process
\* first); and no step changes the goroutine of the hung call, what it has
\* called or what it has logged.
C21_HangBlocksNoOne ==
    /\ \A o \in 1..MaxReq :
          (ctor = "ok" /\ HungOther(o)) ~>
              (exited \/ Rejected(o) \/ task[o].state \in {"done", "hung"})
    /\ [][\A r \in DOMAIN reqs :
             task[r].state = "hung" =>
                 task'[r] = task[r] /\ invoked'[r] = invoked[r] /\ logs'[r] = logs[r]]_vars

\* The user method of one request hangs; a request served after that has been
\* answered 200 and its own method has been called and has returned.
C21_Witness ==
    \E r, o \in DOMAIN reqs :
        /\ task[r].state = "hung" /\ invoked[r] # <<>>
        /\ task[o].state = "done" /\ invoked[o] # <<>> /\ resp[o].code = 200

\* The goroutine of request r is running: started, and its call of h.call has
\* not come to an end.
InFlight(r) == task[r].state \in {"spawned", "hung"}

\* C22: the requests for which a goroutine has been started are the requests
\* whose ServeHTTP call has returned after answering 200, one goroutine each
\* and none for a rejected request; a goroutine that has been started is
\* never started again, calls at most one user method and, once its call has
\* ended (by a return, a panic or a hang), stays as it is; and a request
\* that has been answered 200 can have its goroutine started however many
\* others are running.
C22_OneTaskPerAccepted ==
    /\ [](\A r \in DOMAIN reqs :
            /\ Dispatched(r) <=> (Returned(r) /\ resp[r].code = 200)
            /\ Rejected(r) => NothingDispatched(r)
            /\ Len(invoked[r]) <= 1
            /\ (pc[r] = "responded" /\ ~exited) => ENABLED Go(r))
    /\ [][\A r \in DOMAIN reqs :
             /\ task'[r].state = "spawned" => task[r].state \in {"none", "spawned"}
             /\ task[r].state \in {"done", "panicked", "hung"} =>
                    task'[r] = task[r] /\ invoked'[r] = invoked[r]]_vars

\* Every request has been answered 200 and the goroutines of all of them are
\* running at once.
C22_Witness ==
    /\ \A r \in DOMAIN reqs : InFlight(r) /\ Returned(r) /\ resp[r].code = 200
    /\ Cardinality(DOMAIN reqs) = MaxReq

\* C23: once New has returned a Handler, its secret is the one handed to New
\* and its table the one payloadMethods built of the receiver object, and no
\* step of any request (a rejection, an answer, the start of a goroutine, the
\* call of a user method whatever its outcome) changes the Handler.
C23_HandlerImmutable ==
    /\ [](ctor = "ok" =>
            /\ h.secret = args.secret /\ h.rcvr = args.rcvr
            /\ h.method = payloadMethods(args.rcvr).methods)
    /\ [][ctor # "pending" => h' = h]_vars

\* A Handler with two entries has rejected one request and has run the user
\* method of another, which did not return.
C23_Witness ==
    \E r, o \in DOMAIN reqs :
        /\ DOMAIN h.method = {"*", "push"}
        /\ Rejected(r)
        /\ task[o].state = "hung" /\ invoked[o] # <<>>

\* The keys the table of a receiver object is to have: the event name of every
\* registered type some exported method takes a pointer to, and "*" if some
\* exported method takes (string, interface{}).
WantedKeys(rcvr) ==
    {e \in DOMAIN payloads : \E m \in Range(rcvr) : SpecificFor(m, e)}
        \cup {k \in {"*"} : \E m \in Range(rcvr) : Wildcard(m)}

\* C24: the table New has of payloadMethods has exactly the wanted keys, each
\* key with a method of the receiver object of the matching shape; so
\* {"*", "ping"} for All and Ping, and {"create", "gist", "push"} for Create,
\* Gist and Push.
C24_TableKeys ==
    ctor = "ok" =>
        /\ DOMAIN h.method = WantedKeys(args.rcvr)
        /\ \A k \in DOMAIN h.method :
              /\ h.method[k] \in Range(args.rcvr)
              /\ IF k = "*" THEN Wildcard(h.method[k]) ELSE SpecificFor(h.method[k], k)
        /\ args.rcvr = <<mAll, mPing>> => DOMAIN h.method = {"*", "ping"}
        /\ args.rcvr = <<mCreate, mGist, mPush>> =>
               DOMAIN h.method = {"create", "gist", "push"}

\* New has built the table of Create, Gist and Push.
C24_Witness ==
    /\ ctor = "ok" /\ args.rcvr = <<mCreate, mGist, mPush>>
    /\ DOMAIN h.method = {"create", "gist", "push"}

-----------------------------------------------------------------------------
(* Vocabulary of the claims about package tsc.                             *)

\* tsc.New has returned, with or without a Script.
Constructed == script.state # "pending"
\* What New returns when it returns no Script.
ConfigError == script.state = "error" /\ script.s = NoScript /\ script.err # NoErr

\* The positions of the names in the argument list.
NamePositions == {i \in DOMAIN script.flags : i % 2 = 1}
\* A name is '-' followed by at least one byte.
Dashed(name) == Len(name) >= 2 /\ name[1] = "-"
\* The capitals of the lower-case letters that begin a name here.
Capitals == [a |-> "A", b |-> "B", t |-> "T"]
Capital(c) == IF c \in DOMAIN Capitals THEN Capitals[c] ELSE c
\* The name without its '-', its first character in upper case.
Key(name) == <<Capital(name[2])>> \o SubSeq(name, 3, Len(name))
\* The last position at which a name of the same key as that at i stands.
LastOf(i) ==
    CHOOSE j \in NamePositions :
        /\ Key(script.flags[j]) = Key(script.flags[i])
        /\ \A k \in NamePositions :
               Key(script.flags[k]) = Key(script.flags[i]) => k <= j

\* str is some prefix followed by suffix.
EndsIn(str, suffix) == \E k \in 0..Len(str) : SubSeq(str, 1, k) \o suffix = str
ShellFile == EndsIn(script.file, <<".", "s", "h">>)
                \/ EndsIn(script.file, <<".", "b", "a", "s", "h">>)

\* The text of one node, for an event of the given name, when nothing fails.
NodeText(n, name) ==
    CASE n.node = "text" -> n.chars
      [] n.node = "name" -> name
      [] n.node = "arg" -> IF n.chars \in DOMAIN script.s.args
                           THEN script.s.args[n.chars] ELSE NoValueText
      [] n.node = "exec" -> ExecOutput
      [] OTHER -> <<>>
\* The text of the first k nodes of the template.
RECURSIVE Rendered(_, _)
Rendered(k, name) ==
    IF k = 0 THEN <<>>
    ELSE Rendered(k - 1, name) \o NodeText(script.s.tmpl[k], name)
\* The texts a rendering can stop at because the node that follows failed.
Partial(name) ==
    {Rendered(k - 1, name) : k \in {j \in DOMAIN script.s.tmpl :
                                       script.s.tmpl[j].node \in {"exec", "sleep"}}}

\* Something fails in a run of the Script under env: the rendering, the Close
\* of the writer, bash, or bash and the dump of its script.
\* The durations written in the templates here that time.ParseDuration accepts.
GoodDurations == {<<"1", "s">>}
BadSleep(n) == n.node = "sleep" /\ n.chars \notin GoodDurations
RenderFails(env) ==
    \E j \in DOMAIN script.s.tmpl :
        \/ script.s.tmpl[j].node = "exec" /\ ~env.exec
        \/ BadSleep(script.s.tmpl[j])
CloseFails(env) == ~script.s.bash /\ script.out = "closer" /\ ~env.close
ShellFails(env) == script.s.bash /\ ~RenderFails(env) /\ env.bash # "ok"
RunFails(env) == RenderFails(env) \/ CloseFails(env) \/ ShellFails(env)
ErrorLines(run) == Len(run.errors)

-----------------------------------------------------------------------------
\* C26: tsc.New called with an argument list of odd length returns the error
\* "number of arguments ... must be even" and no Script, whatever the file name
\* and its content, and whatever the names in the list: a name that New would
\* refuse does not change the error, and no run of a Script follows.
C26_OddLength ==
    (Constructed /\ Len(script.flags) % 2 = 1) =>
        /\ ConfigError
        /\ script.err = errOdd
        /\ runs = <<>>
        /\ \A event \in EventNames, env \in Envs : ~ENABLED Webhook(event, env)
C26_Witness ==
    /\ Constructed
    /\ Len(script.flags) = 3
    /\ ~Dashed(script.flags[1])
    /\ script.content = tName
    /\ script.err = errOdd

\* C27: for an argument list of even length, New returns a Script only if each
\* name is '-' followed by at least one character, and the Script's Args then
\* holds exactly the keys of the names (the name without its '-', the first
\* character in upper case), each mapped to the value that follows the last
\* name of that key; a name shorter than two bytes or not starting with '-'
\* makes New return an "invalid flag name" error and no Script.
C27_ArgsOfPairs ==
    (Constructed /\ Len(script.flags) % 2 = 0) =>
        /\ (\E i \in NamePositions : ~Dashed(script.flags[i])) =>
               /\ ConfigError
               /\ \E i \in NamePositions : script.err = errFlag(script.flags[i])
        /\ script.state = "ok" =>
               /\ \A i \in NamePositions : Dashed(script.flags[i])
               /\ DOMAIN script.s.args = {Key(script.flags[i]) : i \in NamePositions}
               /\ \A i \in NamePositions :
                      script.s.args[Key(script.flags[i])] = script.flags[LastOf(i) + 1]
C27_Witness ==
    /\ script.state = "ok"
    /\ script.flags = <<wToken, wValue, wTokenUp, <<"1">> >>
    /\ DOMAIN script.s.args = {<<"T", "o", "k", "e", "n">>}
    /\ script.s.args[<<"T", "o", "k", "e", "n">>] = <<"1">>

\* C28: a Script that New returned is in shell mode exactly when its file
\* name ends in .sh or .bash; every run of it takes the way of that mode (a
\* shell is spawned only in shell mode, a writer is used only in direct mode),
\* and no step after the construction, a failed run included, changes the
\* Script.
C28_ModeFixed ==
    /\ [](script.state = "ok" =>
             /\ script.s.bash <=> ShellFile
             /\ \A i \in DOMAIN runs :
                    /\ runs[i].shell.spawned => script.s.bash
                    /\ runs[i].sink.kind = "none" <=> script.s.bash)
    /\ [][Constructed => script' = script]_vars
C28_Witness ==
    /\ script.state = "ok"
    /\ script.s.bash
    /\ script.file = <<".", "s", "h">>
    /\ Len(runs) = MaxRuns
    /\ runs[1].errors # <<>>
    /\ runs[2].shell.spawned

\* C29: a run of a Script in direct mode spawns no shell and dumps no file,
\* and its writer is the one OutputFunc returns, ioutil.Discard when there is
\* no OutputFunc; what is written to it is the text of the template for the
\* event when the run logged no error, and otherwise that text or the text up
\* to a node that failed.  The template {{.Name}} run for push writes push.
C29_DirectMode ==
    (script.state = "ok" /\ ~script.s.bash) =>
        \A i \in DOMAIN runs :
            LET run == runs[i]
                full == Rendered(Len(script.s.tmpl), run.event)
            IN  /\ run.shell = NoShell
                /\ run.dump = NoDump
                /\ run.sink.kind = IF script.out = "none" THEN "discard" ELSE script.out
                /\ run.errors = <<>> => run.sink.written = full
                /\ run.sink.written \in {full} \cup Partial(run.event)
                /\ (script.content = tName /\ run.event = push) =>
                       run.sink.written = <<"p", "u", "s", "h">>
C29_Witness ==
    /\ script.state = "ok"
    /\ ~script.s.bash
    /\ script.content = tName
    /\ script.out = "buffer"
    /\ Len(runs) = 1
    /\ runs[1].event = push
    /\ runs[1].sink = [kind |-> "buffer", written |-> push, closed |-> FALSE]

\* C30: a call of Script.Webhook can be made and ends, in either mode and
\* whatever fails in it, on the Script New returned and again after its first
\* run; the run it leaves has exactly one error line when the rendering, the
\* Close of the writer, bash or the dump failed, and none otherwise; a failed
\* dump adds no second line, and the run leaves the Script as it was.
C30_ErrorsLogged ==
    /\ []((script.state = "ok" /\ Len(runs) <= 1) =>
             \A event \in EventNames, env \in Envs : ENABLED Webhook(event, env))
    /\ [][\A event \in EventNames, env \in Envs :
             Webhook(event, env) =>
                 LET run == runs'[Len(runs')]
                 IN  /\ ErrorLines(run) = IF RunFails(env) THEN 1 ELSE 0
                     /\ run.dump.state = "failed" => ErrorLines(run) = 1
                     /\ \A j \in DOMAIN run.errors : run.errors[j].format = errorFormat
                     /\ script' = script]_vars
\* A run in shell mode in which bash and the dump failed has left one line.
C30_Witness ==
    /\ script.state = "ok" /\ script.s.bash
    /\ Len(runs) = 1
    /\ runs[1].shell.spawned
    /\ runs[1].dump.state = "failed" /\ ErrorLines(runs[1]) = 1

\* C31: in a run in shell mode, bash is started only when the whole template
\* has been rendered, and its standard input is then the whole rendered text;
\* when the rendering fails, the run starts no bash and writes no dump file.
C31_RenderBeforeShell ==
    [][\A event \in EventNames, env \in Envs :
          (Webhook(event, env) /\ script.s.bash) =>
              LET run == runs'[Len(runs')]
              IN  IF RenderFails(env)
                  THEN run.shell = NoShell /\ run.dump = NoDump
                  ELSE /\ run.shell.spawned
                       /\ run.shell.stdin = Rendered(Len(script.s.tmpl), event)]_vars
\* A run in shell mode of a template with an exec in the middle of its text
\* has started bash on the whole text.
C31_Witness ==
    /\ script.state = "ok" /\ script.s.bash
    /\ script.content = tExec
    /\ Len(runs) = 1
    /\ runs[1].shell.spawned /\ runs[1].shell.stdin = <<"x", "o", "k", "y">>

\* The text of the one error line of a run, and what it mentions.
ErrorText(run) == run.errors[1].args[1].s
Mentions(text, part) == \E k \in DOMAIN text : text[k] = part
\* The dump of the rendered buffer fails under env, and with which error.
DumpFails(env) == ~env.temp \/ env.copy # "ok"
DumpError(env) ==
    IF ~env.temp THEN errTemp ELSE IF env.copy = "write" THEN errCopy ELSE errFileClose

\* C32: in a run in shell mode in which bash does not start or exits with a
\* failure, exactly one error line is logged and it carries the error of
\* bash; when the dump succeeds the line names the dump file, the file holds
\* the rendered buffer byte for byte and the line carries no dump error; when
\* the dump fails the line carries the error of the dump as well.
C32_ShellFailureDumped ==
    [][\A event \in EventNames, env \in Envs :
          (Webhook(event, env) /\ ShellFails(env)) =>
              LET run == runs'[Len(runs')]
                  buffer == Rendered(Len(script.s.tmpl), event)
              IN  /\ ErrorLines(run) = 1
                  /\ Mentions(ErrorText(run), errRun(env.bash))
                  /\ IF DumpFails(env)
                     THEN /\ Mentions(ErrorText(run), DumpError(env))
                          /\ run.dump.state = "failed"
                     ELSE /\ Mentions(ErrorText(run), DumpName)
                          /\ run.dump = [state |-> "written", name |-> DumpName,
                                         content |-> buffer]
                          /\ \A e \in {errTemp, errCopy, errFileClose} :
                                 ~Mentions(ErrorText(run), e)]_vars
C32_Witness ==
    /\ script.state = "ok" /\ script.s.bash
    /\ script.content = tEcho /\ script.flags = <<wToken, wValue>>
    /\ Len(runs) = 1
    /\ runs[1].dump = [state |-> "written", name |-> DumpName,
                       content |-> <<"e", " ", "p", "u", "s", "h", "t", "1">>]
    /\ runs[1].shell.stdin = runs[1].dump.content
    /\ Mentions(ErrorText(runs[1]), DumpName)
    /\ Mentions(ErrorText(runs[1]), errRun("nostart"))

\* The Script that New returns for the inputs of this construction.
Fresh == NewScript(script.file, script.flags, script.content).s

\* The step is a call of Script.Webhook: a run is added.
RunMade == script.state = "ok" /\ Len(runs') = Len(runs) + 1

\* C33: a run changes neither the mode, nor the template, nor the arguments
\* of the Script, whether it logs an error or not, and leaves the runs made
\* before it as they are; after any runs the Script is the one New returned,
\* and the run made last, whatever the runs before it, is a run that the
\* freshly constructed Script makes for the same event.
C33_RunsIndependent ==
    /\ [](script.state = "ok" =>
             /\ script.s = Fresh
             /\ runs # <<>> =>
                    LET last == runs[Len(runs)]
                    IN  \E env \in Envs :
                            last = WebhookResult(Fresh, script.out, last.event, env))
    /\ [][RunMade =>
             /\ script'.s.bash = script.s.bash
             /\ script'.s.tmpl = script.s.tmpl
             /\ script'.s.args = script.s.args
             /\ SubSeq(runs', 1, Len(runs)) = runs]_vars
C33_Witness ==
    /\ script.state = "ok"
    /\ script.content = tEcho /\ script.flags = <<wToken, wValue>>
    /\ Len(runs) = MaxRuns
    /\ runs[1].errors # <<>>
    /\ runs[2].errors = <<>>
    /\ runs[2].event = runs[1].event
    /\ runs[2].shell.stdin = <<"e", " ", "p", "i", "n", "g", "t", "1">>

\* The node at which the rendering stops under env, and the error it stops
\* with.
FailsAt(j, env) ==
    \/ script.s.tmpl[j].node = "exec" /\ ~env.exec
    \/ BadSleep(script.s.tmpl[j])
FirstFailing(env) ==
    CHOOSE j \in DOMAIN script.s.tmpl :
        FailsAt(j, env) /\ \A k \in 1..(j - 1) : ~FailsAt(k, env)
FunctionError(n) == IF n.node = "exec" THEN errExec ELSE errDuration

\* C34: when the command of {{exec}} fails or the duration of {{sleep}} does
\* not parse, the rendering stops at that node: nothing of the template from
\* that node on is written, no shell is spawned and no dump written in either
\* mode, and the run logs one error line that carries the error of the
\* command or of the parse.
C34_FunctionErrorAborts ==
    [][\A event \in EventNames, env \in Envs :
          (Webhook(event, env) /\ RenderFails(env)) =>
              LET run == runs'[Len(runs')]
                  j == FirstFailing(env)
              IN  /\ run.shell = NoShell
                  /\ run.dump = NoDump
                  /\ ~script.s.bash => run.sink.written = Rendered(j - 1, event)
                  /\ ErrorLines(run) = 1
                  /\ Mentions(ErrorText(run), FunctionError(script.s.tmpl[j]))]_vars
C34_Witness ==
    /\ script.state = "ok"
    /\ Len(runs) = 1
    /\ script.content = tExec /\ ~script.s.bash
    /\ runs[1].sink.written = <<"x">>
    /\ Mentions(ErrorText(runs[1]), errExec)

-----------------------------------------------------------------------------
(* Vocabulary of the claims about Dump.                                    *)

\* What the handler does with request r when Dump is not around it.
Unwrapped(r) == ServeHTTPResult(h, reqs[r])
\* The handler under Dump is a *webhook.Handler.
WrappedWebhook == dumper.on /\ dumper.handler = "webhook"
\* A goroutine of d.dump was started for request r.
DumpStarted(r) == dtask[r].state \in {"spawned", "written", "failed"}
\* dumper.ServeHTTP has returned for request r.
DumpReturned(r) == dtask[r].state # "none"
\* The requests answered 200.
Answered200 == {r \in DOMAIN reqs : Returned(r) /\ resp[r].code = 200}

\* C35: with Dump around a Handler, every request gets the status and the
\* body the Handler gives it without Dump, the Handler reads the same bytes
\* and decodes the same payload, the same user method is called with the same
\* arguments; a goroutine of d.dump is started, and a file written, only for
\* a request answered 200, never for a rejected one.
C35_DumpTransparent ==
    WrappedWebhook =>
        /\ \A r \in DOMAIN reqs :
              LET u == Unwrapped(r)
              IN  /\ pc[r] # "start" =>
                         /\ buf[r] = [read |-> u.read, body |-> u.body]
                         /\ v[r] = u.v
                  /\ Returned(r) =>
                         /\ resp[r].code = u.code
                         /\ u.code # 200 => resp[r].body = fatalBody(u.code, u.err)
                  /\ Dispatched(r) =>
                         /\ u.code = 200
                         /\ task[r].event = reqs[r].Event /\ task[r].payload = u.v
                  /\ task[r].state = "done" =>
                         invoked[r] = callResult(h, reqs[r].RemoteAddr, reqs[r].Event,
                                                 u.v).calls
                  /\ DumpStarted(r) => r \in Answered200
                  /\ Rejected(r) => ~DumpStarted(r) /\ rec[r] = resp[r].code
        /\ dir # {} => \E r \in Answered200 : dtask[r].state \in {"written", "failed"}
        /\ \A f \in dir :
              \E r \in Answered200 :
                  dtask[r].state \in {"written", "failed"} /\ dtask[r].name = f.name
C35_Witness ==
    /\ WrappedWebhook
    /\ \E r, o \in DOMAIN reqs :
          /\ Rejected(r) /\ dtask[r].state = "skipped"
          /\ resp[o].code = 200 /\ dtask[o].state = "written"
          /\ task[o].state = "done" /\ invoked[o] # <<>>
          /\ dir # {}

\* Every request has been served, and the goroutine of d.dump of every
\* request answered 200 has written its file without an error.
AllDumped ==
    /\ \A r \in DOMAIN reqs : Returned(r) /\ DumpReturned(r)
    /\ \A r \in Answered200 : dtask[r].state = "written"

\* C36: once every request sent through Dump around a Handler has been served
\* and the dumps of the requests answered 200 have been written, the directory
\* holds as many files as requests were answered 200, and each such request
\* has a file of its own, named after its event and holding its body.
C36_Claim ==
    (WrappedWebhook /\ AllDumped) =>
        /\ Cardinality(dir) = Cardinality(Answered200)
        /\ \A r \in Answered200 :
              \E f \in dir :
                  /\ f.name = dtask[r].name
                  /\ f.name.event = reqs[r].Event
                  /\ f.content = reqs[r].Body
        /\ \A r, o \in Answered200 : r # o => dtask[r].name # dtask[o].name

\* C37: whatever handler Dump is around, when a request has been answered 200
\* and dumper.ServeHTTP has returned, a goroutine of d.dump was started for
\* it, and what it dumps is the body of the request.
C37_Claim ==
    dumper.on =>
        \A r \in DOMAIN reqs :
            (r \in Answered200 /\ DumpReturned(r)) =>
                DumpStarted(r) /\ dtask[r].buf = reqs[r].Body

-----------------------------------------------------------------------------
\* C38: splitCommand of a command line made of tokens with one space between
\* two returns the first token as the command and the others, in order, as
\* the arguments (no argument at all for a single token): a token wrapped in
\* quotes without its quotes and with its spaces, every other token as it is
\* written, its backslashes and escaped spaces kept.
C38_Claim ==
    split.state = "done" =>
        /\ split.cmd = command[1].want
        /\ split.args = [k \in 1..(Len(command) - 1) |-> command[k + 1].want]

-----------------------------------------------------------------------------
\* An exported method of neither shape: wrong number of arguments, an argument
\* that is no pointer to a registered payload type, or two arguments that are
\* not (string, interface{}).
NonMatching(m) ==
    /\ m.PkgPath = ""
    /\ ~Wildcard(m)
    /\ \A e \in DOMAIN payloads : ~SpecificFor(m, e)

\* Two methods of the object claim the same entry of the routing table.
Clash(rcvr) ==
    \E i, j \in DOMAIN rcvr :
        /\ i # j
        /\ \/ Wildcard(rcvr[i]) /\ Wildcard(rcvr[j])
           \/ \E e \in DOMAIN payloads : SpecificFor(rcvr[i], e) /\ SpecificFor(rcvr[j], e)

\* C39: once New has ended for an object, the methods of neither shape have
\* left no trace: New has panicked only for an empty secret or for two methods
\* of the same entry, and the table it built otherwise holds, under each event
\* name and under "*", exactly the method of the object that has that shape,
\* and no method of neither shape under any key.
C39_NonMatchingSkipped ==
    ctor # "pending" =>
        /\ ctor = "panic" <=> (args.secret = "" \/ Clash(args.rcvr))
        /\ ctor = "ok" =>
              /\ \A k \in DOMAIN h.method : ~NonMatching(h.method[k])
              /\ \A e \in DOMAIN payloads :
                    \A m \in Range(args.rcvr) :
                        SpecificFor(m, e) => e \in DOMAIN h.method /\ h.method[e] = m
              /\ \A m \in Range(args.rcvr) :
                    Wildcard(m) => "*" \in DOMAIN h.method /\ h.method["*"] = m
              /\ \A k \in DOMAIN h.method : h.method[k] \in Range(args.rcvr)

\* New has returned a Handler for an object with Push between a method that
\* takes the payload by value and one with (int, interface{}): Push alone is
\* in the table.
C39_Witness ==
    /\ ctor = "ok"
    /\ args.rcvr = <<mByValue, mPush, mWrong3>>
    /\ DOMAIN h.method = {"push"} /\ h.method["push"] = mPush

=============================================================================
